---- MODULE Spec2Model ----
(***************************************************************************)
(* Model of the market-maker core of gkozyrev/hft-research-strategy:       *)
(*   - strategy::TradeLedger   (src/src/strategy/trade_ledger.cpp)         *)
(*   - strategy::OrderBook     (src/src/strategy/orderbook.cpp)            *)
(*   - strategy::OrderBookManager, the depth feed                          *)
(*                             (src/src/strategy/orderbook_manager.cpp)    *)
(*                                                                         *)
(* Numbers.  TLC's integers are 32 bits wide, the ledger's are int64_t and *)
(* its clamp is 10^15.  The model keeps the code's arithmetic and scales   *)
(* the two limits down (INT64_MAX, kQuoteCapacityLimit) so that both are   *)
(* within reach of the quantities the fills carry; their order             *)
(* 0 < kQuoteCapacityLimit < INT64_MAX is the code's.                      *)
(* Prices and quantities of the order book are doubles in the code; the    *)
(* model draws them from integer grids and computes the microprice as an   *)
(* exact fraction.                                                         *)
(***************************************************************************)
EXTENDS Integers, Sequences, FiniteSets, TLC

VARIABLES
    file,        \* the ledger's storage file: the sequence of its lines
    entries_,    \* TradeLedger::entries_
    state_,      \* TradeLedger::state_ (LedgerState)
    threw,       \* whether the ledger operation that ran last ended with an exception
    everThrew,   \* history: some ledger operation has thrown
    loaded,      \* history: load() has run on this ledger
    bids_,       \* OrderBook::bids_, a map price -> quantity (best = highest price)
    asks_,       \* OrderBook::asks_, a map price -> quantity (best = lowest price)
    last_update_id_,    \* OrderBook::last_update_id_
    last_to_version_,   \* OrderBookManager::last_to_version_: <<>> (empty string) or <<n>>
    snapshot_version_,  \* OrderBookManager::snapshot_version_
    subscribed_,        \* OrderBookManager::subscribed_
    depth_callback_,    \* WsSpotClient::depth_callback_ is the manager's handler
    lastOp,      \* the operation that ran last ("none" after construction)
    ret,         \* what it returned, for the operations that return a bool
    message,     \* the version fields of the depth message handled last
    mutex_,      \* OrderBook::mutex_ (std::shared_mutex): who holds it
    writer,      \* the writer thread: the OrderBook call it is in and its position
    reader,      \* the reader threads: the getter each is in, its position and locals
    seen,        \* history, per reader: what its getter returns on each book state
                 \* that stood between two writer calls while the getter ran
    client,      \* mexc::ClientBase: last_timings_, request_mutex_ and the two threads
                 \* that use them (the one issuing requests, the one observing timings)
    notify,      \* OrderBookManager: update_callback_, callback_mutex_, the feed thread
                 \* in notify_update and the thread in set_update_callback
    config_,     \* MarketMakerStrategy::config_ (MarketMakerConfig), fixed at construction
    strategy,    \* the data members of MarketMakerStrategy the model follows
    now,         \* the clocks (steady_clock, system_clock), in milliseconds
    hits,        \* history: how many 429 responses the governor has noted
    escapes,     \* history: the calls of throttle_taker_escape, their time and result
    iteration    \* history: what the run() iteration that ran last met and did

ledgerVars == <<entries_, state_, threw, everThrew, loaded>>

bookVars == <<bids_, asks_, last_update_id_>>

feedVars == <<last_to_version_, snapshot_version_, subscribed_, depth_callback_, ret, message>>

lockVars == <<mutex_, writer, reader, seen, client, notify>>

strategyVars == <<config_, strategy, now, hits, escapes, iteration>>

vars == <<file, entries_, state_, threw, everThrew, loaded, bids_, asks_, last_update_id_,
          last_to_version_, snapshot_version_, subscribed_, depth_callback_, lastOp, ret,
          message, mutex_, writer, reader, seen, client, notify, config_, strategy, now, hits, escapes,
          iteration>>

-----------------------------------------------------------------------------
(* Bounds and value sets                                                   *)

\* Appends per behaviour of SpecLedger (the file grows by one line each).
MaxFills == 2

\* Lines of the file a ledger is opened on (SpecLedgerFile, SpecLedgerReload).
MaxFileLines == 2

\* Appends after the load in SpecLedgerReload.
MaxSuffix == 1

\* Width of the model's int64_t.
Int64Bits == 8

INT64_MAX == 2 ^ (Int64Bits - 1) - 1
INT64_MIN == -(2 ^ (Int64Bits - 1))

\* trade_ledger.cpp:16, static_cast<int64_t>(1e15), scaled to the model's
\* quantities (see the note on numbers above).
kQuoteCapacityLimit == 2

\* Trade ids, base quantities and quote quantities a fill may carry.  The
\* strategy builds fills with id >= 1 and quantities >= 0
\* (market_maker.cpp:907-953).
TradeIds == {1, 2, 3}
BaseQtys == {1, 2}
QuoteQtys == {0, 3}

Buy == "Buy"
Sell == "Sell"

\* struct TradeFill, the fields the accounting reads.
Fills == [id : TradeIds, side : {Buy, Sell}, base_qty : BaseQtys, quote_qty : QuoteQtys]

-----------------------------------------------------------------------------
(* Pure helpers                                                            *)

Min(a, b) == IF a < b THEN a ELSE b
Max(a, b) == IF a > b THEN a ELSE b

\* llround with a slip: the fraction is cut (a static_cast without llround).
llround_trunc(num, den) ==
    IF num >= 0 THEN num \div den ELSE -((-num) \div den)

\* std::llround(double(num) / double(den)), den > 0: to nearest, halves away
\* from zero.  For every operand the model reaches (den < 10, |num| < 45 * den;
\* in SpecLedgerWide den = 1 and the quantities are powers of two) the IEEE double
\* evaluation the code performs, (c / p) * m rounded, gives this exact value.
llround(num, den) ==
    IF num >= 0 THEN (2 * num + den) \div (2 * den)
    ELSE -((2 * (-num) + den) \div (2 * den))

\* std::clamp
clamp(x, lo, hi) == IF x < lo THEN lo ELSE IF x > hi THEN hi ELSE x

\* The condition under which safe_add throws std::overflow_error.
safe_add_throws(lhs, rhs) ==
    \/ (rhs > 0 /\ lhs > INT64_MAX - rhs)
    \/ (rhs < 0 /\ lhs < INT64_MIN - rhs)

\* An int64_t difference lhs - rhs written without safe_add leaves the range:
\* signed overflow, which the language leaves undefined.
sub_overflows(lhs, rhs) == lhs - rhs > INT64_MAX \/ lhs - rhs < INT64_MIN

\* The value two's complement arithmetic gives to x.
wrap_int64(x) == ((x - INT64_MIN) % (2 ^ Int64Bits)) + INT64_MIN

\* LedgerState{}
ZeroState ==
    [position_base |-> 0, position_cost |-> 0, realized_pnl |-> 0, last_trade_id |-> 0]

-----------------------------------------------------------------------------
(* TradeLedger accounting.  append (lines 90-112) and rebuild_from_entries  *)
(* (lines 133-156) hold the same buy and sell code, copied verbatim; the    *)
(* model writes it once (buy_path, sell_path) and keeps what differs: append *)
(* clamps realized_pnl after every fill, the rebuild once after the loop.   *)
(* Each operator returns [state, threw, undefined]: a throw leaves the      *)
(* fields already written as they are; `undefined` tells that the unguarded *)
(* difference proceeds - cost_reduction overflowed, `state` then being what *)
(* wrapping arithmetic yields.  The operations choose among the outcomes of *)
(* such a run (SignedOverflow).                                            *)

\* buy_path with a slip: the two quantities swapped between the two fields.
buy_path_swapped(s, fill) ==
    [state |-> [s EXCEPT !.position_base = s.position_base + fill.quote_qty,
                         !.position_cost = s.position_cost + fill.base_qty],
     threw |-> FALSE, undefined |-> FALSE]

buy_path(s, fill) ==
    IF safe_add_throws(s.position_base, fill.base_qty)
    THEN [state |-> s, threw |-> TRUE, undefined |-> FALSE]
    ELSE LET s1 == [s EXCEPT !.position_base = s.position_base + fill.base_qty]
         IN  IF safe_add_throws(s1.position_cost, fill.quote_qty)
             THEN [state |-> s1, threw |-> TRUE, undefined |-> FALSE]
             ELSE [state |-> [s1 EXCEPT !.position_cost = s1.position_cost + fill.quote_qty],
                   threw |-> FALSE, undefined |-> FALSE]

\* sell_path with a slip: the whole sell is matched, without the std::min
\* against the position held.
sell_path_nomin(s, fill, remaining) ==
    IF ~(remaining > 0 /\ s.position_base > 0)
    THEN [state |-> s, threw |-> FALSE, undefined |-> FALSE]
    ELSE LET cost_reduction == llround(s.position_cost * remaining, Max(s.position_base, 1))
         IN  [state |-> [s EXCEPT !.position_base = s.position_base - remaining,
                                  !.position_cost = Max(0, s.position_cost - cost_reduction),
                                  !.realized_pnl = s.realized_pnl + (fill.quote_qty - cost_reduction)],
              threw |-> FALSE, undefined |-> FALSE]

RECURSIVE sell_path(_, _, _)
sell_path(s, fill, remaining) ==
    IF ~(remaining > 0 /\ s.position_base > 0)
    THEN [state |-> s, threw |-> FALSE, undefined |-> FALSE]
    ELSE LET matched == Min(s.position_base, remaining)
             cost_reduction == llround(s.position_cost * matched, Max(s.position_base, 1))
             proceeds == llround(fill.quote_qty * matched, fill.base_qty)
             s1 == [s EXCEPT !.position_base = s.position_base - matched,
                             !.position_cost = Max(0, s.position_cost - cost_reduction)]
             overflowed == sub_overflows(proceeds, cost_reduction)
             delta == wrap_int64(proceeds - cost_reduction)
         IN  IF safe_add_throws(s.realized_pnl, delta)
             THEN [state |-> s1, threw |-> TRUE, undefined |-> overflowed]
             ELSE LET rest == sell_path([s1 EXCEPT !.realized_pnl = s.realized_pnl + delta],
                                        fill, remaining - matched)
                  IN  [rest EXCEPT !.undefined = @ \/ overflowed]

\* append_finish with a slip: the id of the fill is stored without std::max.
append_finish_nomax(s, fill) ==
    [s EXCEPT !.last_trade_id = fill.id,
              !.realized_pnl = clamp(s.realized_pnl, -kQuoteCapacityLimit, kQuoteCapacityLimit)]

\* append, lines 111-112.
append_finish(s, fill) ==
    [s EXCEPT !.last_trade_id = Max(s.last_trade_id, fill.id),
              !.realized_pnl = clamp(s.realized_pnl, -kQuoteCapacityLimit, kQuoteCapacityLimit)]

\* append, lines 90-112: the state update after the fill was stored.
append_account(s, fill) ==
    LET r == IF fill.side = Buy THEN buy_path(s, fill)
             ELSE sell_path(s, fill, fill.base_qty)
    IN  IF r.threw THEN r
        ELSE [state |-> append_finish(r.state, fill), threw |-> FALSE,
              undefined |-> r.undefined]

\* rebuild_from_entries, lines 132-155: the loop over the sorted fills.
RECURSIVE rebuild_loop(_, _, _)
rebuild_loop(s, sorted, i) ==
    IF i > Len(sorted) THEN [state |-> s, threw |-> FALSE, undefined |-> FALSE]
    ELSE LET fill == sorted[i]
             r == IF fill.side = Buy THEN buy_path(s, fill)
                  ELSE sell_path(s, fill, fill.base_qty)
         IN  IF r.threw THEN r
             ELSE LET rest == rebuild_loop([r.state EXCEPT !.last_trade_id =
                                                Max(r.state.last_trade_id, fill.id)],
                                           sorted, i + 1)
                  IN  [rest EXCEPT !.undefined = @ \/ r.undefined]

\* rebuild_from_entries, lines 126 and 132-156, given the sorted copy.
rebuild_from_entries(sorted) ==
    LET r == rebuild_loop(ZeroState, sorted, 1)
    IN  IF r.threw THEN r
        ELSE [state |-> [r.state EXCEPT !.realized_pnl =
                            clamp(r.state.realized_pnl, -kQuoteCapacityLimit, kQuoteCapacityLimit)],
              threw |-> FALSE, undefined |-> r.undefined]

\* std::sort by id (lines 127-130).  std::sort is not stable: fills of equal
\* id may come out in any order, so the result is any permutation of the
\* entries that is ascending in id.
RECURSIVE SortedFrom(_, _)
SortedFrom(seq, S) ==
    IF S = {} THEN { <<>> }
    ELSE UNION { { <<seq[i]>> \o t : t \in SortedFrom(seq, S \ {i}) } :
                   i \in { j \in S : \A k \in S : seq[j].id <= seq[k].id } }

SortedById(seq) == SortedFrom(seq, 1..Len(seq))

-----------------------------------------------------------------------------
(* The storage file.  A line is empty, text that is no JSON, or a JSON     *)
(* value; of a JSON value the model keeps the four fields the accounting   *)
(* reads, each present with the right type or not (absent, or of a type    *)
(* get<T>() rejects).                                                      *)

Missing == -1
NoSide == "?"

EmptyLine == [kind |-> "empty", id |-> Missing, side |-> NoSide, base |-> Missing, quote |-> Missing]
TextLine  == [kind |-> "text",  id |-> Missing, side |-> NoSide, base |-> Missing, quote |-> Missing]

\* persist_fill: the JSON record of a fill.
persist_fill(fill) ==
    [kind |-> "json", id |-> fill.id,
     side |-> IF fill.side = Buy THEN "BUY" ELSE "SELL",
     base |-> fill.base_qty, quote |-> fill.quote_qty]

\* json_value_or<T>(json, key, fallback) for an integer field.
json_value_or(v, fallback) == IF v = Missing THEN fallback ELSE v

\* load, lines 59-79, for one line: "skip" (continue) or the fill pushed.
parse_line(line) ==
    IF line.kind = "empty" THEN [skip |-> TRUE, fill |-> 0]
    ELSE IF line.kind = "text" THEN [skip |-> TRUE, fill |-> 0]
    ELSE [skip |-> FALSE,
          fill |-> [id |-> json_value_or(line.id, 0),
                    side |-> IF line.side = "SELL" THEN Sell ELSE Buy,
                    base_qty |-> json_value_or(line.base, 0),
                    quote_qty |-> json_value_or(line.quote, 0)]]

\* load_lines with a slip: the loop ends at the first line it cannot read
\* (break for continue).
RECURSIVE load_lines_break(_, _)
load_lines_break(lines, i) ==
    IF i > Len(lines) THEN <<>>
    ELSE LET r == parse_line(lines[i])
         IN  IF r.skip THEN <<>>
             ELSE <<r.fill>> \o load_lines_break(lines, i + 1)

\* load, lines 57-80: the entries read from the lines i.. of the file.
RECURSIVE load_lines(_, _)
load_lines(lines, i) ==
    IF i > Len(lines) THEN <<>>
    ELSE LET r == parse_line(lines[i])
         IN  IF r.skip THEN load_lines(lines, i + 1)
             ELSE <<r.fill>> \o load_lines(lines, i + 1)

-----------------------------------------------------------------------------
(* TradeLedger operations                                                  *)

\* What a build makes of a run r of the accounting.  A run through a signed
\* overflow is undefined: the difference wraps (two's complement arithmetic,
\* r.state), or the process is ended there (trapping arithmetic, a
\* sanitizer).
SignedOverflow(r) == IF r.undefined THEN {"wraps", "traps"} ELSE {"defined"}

\* The ledger of a process that was ended: nothing of the object is left.
ledger_gone ==
    /\ entries_' = <<>>
    /\ state_' = ZeroState
    /\ threw' = FALSE
    /\ loaded' = FALSE
    /\ lastOp' = "abort"
    /\ UNCHANGED everThrew

\* TradeLedger::append(fill)
append(fill) ==
    /\ file' = Append(file, persist_fill(fill))
    /\ LET r == append_account(state_, fill)
       IN  \E outcome \in SignedOverflow(r) :
             IF outcome = "traps" THEN ledger_gone
             ELSE /\ entries_' = Append(entries_, fill)
                  /\ state_' = r.state
                  /\ threw' = r.threw
                  /\ everThrew' = (everThrew \/ r.threw)
                  /\ lastOp' = "append"
                  /\ UNCHANGED loaded
    /\ UNCHANGED <<bookVars, feedVars, lockVars, strategyVars>>

\* TradeLedger::load()
load ==
    /\ LET parsed == load_lines(file, 1)
       IN  \E sorted \in SortedById(parsed) :
             LET r == rebuild_from_entries(sorted)
             IN  \E outcome \in SignedOverflow(r) :
                   IF outcome = "traps" THEN ledger_gone
                   ELSE /\ entries_' = parsed
                        /\ state_' = r.state
                        /\ threw' = r.threw
                        /\ everThrew' = (everThrew \/ r.threw)
                        /\ lastOp' = "load"
                        /\ loaded' = TRUE
    /\ UNCHANGED <<file, bookVars, feedVars, lockVars, strategyVars>>

NoMessage == [from |-> <<>>, to |-> <<>>, version |-> <<>>]

\* A TradeLedger after construction.
LedgerFresh ==
    /\ entries_ = <<>>
    /\ state_ = ZeroState
    /\ threw = FALSE
    /\ everThrew = FALSE
    /\ loaded = FALSE

\* An OrderBook after construction (orderbook.hpp:106-110).
BookFresh ==
    /\ bids_ = <<>>
    /\ asks_ = <<>>
    /\ last_update_id_ = 0

\* An OrderBookManager after construction (orderbook_manager.hpp:53-58), on a
\* WsSpotClient that has no depth callback yet.
FeedFresh ==
    /\ last_to_version_ = <<>>
    /\ snapshot_version_ = 0
    /\ subscribed_ = FALSE
    /\ depth_callback_ = FALSE
    /\ ret = FALSE
    /\ message = NoMessage

\* struct MarketMakerConfig (market_maker.hpp:20-50) with its default values,
\* the fields the model reads.  Times are milliseconds; max_drawdown_pct is
\* held in percent (20 for 0.2), NAV and max_drawdown_usd in whole units.
DefaultConfig ==
    [max_drawdown_pct |-> 20, max_drawdown_usd |-> 10,
     order_status_poll_ms |-> 200, order_status_timeout_ms |-> 2000,
     risk_cooldown_ms |-> 60000, taker_escape_cooldown_ms |-> 5000,
     max_taker_escapes_per_min |-> 6,
     rate_limit_backoff_ms_initial |-> 750, rate_limit_backoff_ms_max |-> 10000,
     min_escape_interval_ms |-> 1500, escape_bps |-> 25, escape_hysteresis_bps |-> 5,
     min_quote_order |-> 1, fill_poll_interval_ms |-> 2000]

\* An optional value (std::optional, or a time_point that is the epoch when
\* unset): <<>> when empty, <<v>> when it holds v.  Time points are plain
\* numbers, 0 being the epoch.
None == <<>>
Some(v) == <<v>>

\* The reading of the clocks when the strategy is constructed.
StartTime == 1000

\* MarketMakerStrategy after construction (market_maker.hpp:144-176);
\* first_iteration is the local of run() (line 317).  current_backoff_ms_ is
\* a double: the model holds it as the exact fraction <<numerator, denominator>>.
FreshStrategy ==
    [buy_order_ |-> None, sell_order_ |-> None,
     initial_nav_ |-> None, session_peak_nav_ |-> None,
     trading_enabled_ |-> TRUE, risk_disabled_since_ |-> 0,
     last_escape_time_ |-> 0, escape_window_start_ |-> 0,
     escape_count_window_ |-> 0,
     rate_limited_until_ |-> 0, current_backoff_ms_ |-> <<0, 1>>,
     rate_limited_this_loop_ |-> FALSE,
     last_sell_escape_event_ |-> 0, last_buy_escape_event_ |-> 0,
     last_sell_escape_price_ |-> 0, last_buy_escape_price_ |-> 0,
     first_iteration |-> TRUE,
     last_trade_id_ |-> 0, last_trades_poll_time_ |-> 0]

StrategyFresh ==
    /\ strategy = FreshStrategy
    /\ now = StartTime
    /\ hits = 0
    /\ escapes = <<>>
    /\ iteration = [n |-> 0]

\* Reader threads of the order book (the strategy loop, the display).
MaxReaders == 1
Readers == 1..MaxReaders

\* A thread that is in no call of the OrderBook.
NoCall == [op |-> "none", pc |-> "idle"]

\* struct RequestTimings (http_client.hpp:12-19): its six doubles, in order.
TimingFields == 6

\* The timings curl reports for the n-th request of the client; no two
\* requests report the same value in any field.  n = 0: the value-initialized
\* last_timings_{} of the constructor.
request_timings(n) == [f \in 1..TimingFields |-> n]

\* A ClientBase after its constructor (client_base.cpp:42-46), no thread in it.
ClientFresh ==
    [last_timings_ |-> request_timings(0),
     request_mutex_ |-> FALSE,
     requests |-> 0,
     issuer |-> [pc |-> "idle", response |-> request_timings(0), field |-> 1],
     observer |-> [pc |-> "idle", result |-> request_timings(0), field |-> 1,
                   raced |-> FALSE]]

\* The callbacks a caller registers with set_update_callback; 0 is nullptr
\* (an empty std::function), 1 the callback registered first, and every call
\* of set_update_callback that registers a callback registers a new one.
MaxCallbacks == 2
NoCallback == 0
Callbacks == 1..(MaxCallbacks + 1)

\* An OrderBookManager whose owner has registered callback 1, no thread in it.
\* History: retired, the callbacks a call of set_update_callback that has
\* returned took out; late, how often each was invoked after that; stale,
\* whether a handler copied a callback that was retired already.
NotifyFresh ==
    [update_callback_ |-> 1,
     callback_mutex_ |-> "free",
     feed |-> [pc |-> "idle", callback_copy |-> NoCallback],
     setter |-> [pc |-> "idle", callback |-> NoCallback],
     retired |-> {},
     late |-> [c \in Callbacks |-> 0],
     stale |-> FALSE,
     sets |-> 0,
     messages |-> 0]

\* The mutex free, every thread outside the OrderBook.
LockFresh ==
    /\ mutex_ = [unique |-> FALSE, shared |-> {}]
    /\ writer = NoCall
    /\ reader = [r \in Readers |-> NoCall]
    /\ seen = [r \in Readers |-> {}]
    /\ client = ClientFresh
    /\ notify = NotifyFresh

\* The strategy's objects after construction.
Fresh ==
    /\ LedgerFresh
    /\ BookFresh
    /\ FeedFresh
    /\ LockFresh
    /\ StrategyFresh
    /\ config_ = DefaultConfig
    /\ lastOp = "none"

\* A ledger constructed on a path with no file yet.
InitLedger ==
    /\ file = <<>>
    /\ Fresh

NextLedger ==
    \/ \E fill \in Fills : (Len(file) < MaxFills /\ append(fill))
    \/ load

SpecLedger == InitLedger /\ [][NextLedger]_vars

-----------------------------------------------------------------------------
(* A ledger opened on a file that exists already: records the ledger wrote, *)
(* records with a field absent or of the wrong type, empty lines and text   *)
(* that is no JSON.                                                        *)

FillLines == { persist_fill(f) : f \in Fills }

\* JSON lines that are no complete record: one field of a record absent (or
\* mistyped), or none of the fields there (such as {} or 42).
MalformedLines ==
    LET some == { l \in FillLines : l.id = 2 /\ l.quote = 3 }
    IN  { [l EXCEPT !.id = Missing] : l \in some }
        \cup { [l EXCEPT !.side = NoSide] : l \in some }
        \cup { [l EXCEPT !.base = Missing] : l \in some }
        \cup { [l EXCEPT !.quote = Missing] : l \in some }
        \cup { [kind |-> "json", id |-> Missing, side |-> NoSide, base |-> Missing, quote |-> Missing] }

Lines == FillLines \cup MalformedLines \cup {EmptyLine, TextLine}

InitLedgerFile ==
    /\ file \in UNION { [1..n -> Lines] : n \in 0..MaxFileLines }
    /\ Fresh

NextLedgerFile == load

SpecLedgerFile == InitLedgerFile /\ [][NextLedgerFile]_vars

\* A ledger opened on a file of records, loaded, then appended to.
InitLedgerReload ==
    /\ file \in UNION { [1..n -> FillLines] : n \in 0..MaxFileLines }
    /\ Fresh

NextLedgerReload ==
    \/ (~loaded /\ load)
    \/ \E fill \in Fills :
          (loaded /\ Len(entries_) < MaxFileLines + MaxSuffix /\ append(fill))

SpecLedgerReload == InitLedgerReload /\ [][NextLedgerReload]_vars

Spec == SpecLedger

-----------------------------------------------------------------------------
(* A ledger whose fills carry quantities at the ends of the int64_t range,  *)
(* of either sign: TradeFill holds int64_t fields, load() takes any integer *)
(* the file holds, and append() is public.  The quantities are powers of    *)
(* two, which a double holds exactly.                                       *)

WideQtys == {INT64_MIN, 1, 2 ^ (Int64Bits - 2)}

WideFills == [id : {1, 2}, side : {Buy, Sell}, base_qty : {1}, quote_qty : WideQtys]

NextLedgerWide ==
    \/ \E fill \in WideFills : (Len(file) < MaxFills /\ append(fill))
    \/ load

SpecLedgerWide == InitLedger /\ [][NextLedgerWide]_vars

-----------------------------------------------------------------------------
(* OrderBook (orderbook.cpp).  Prices and quantities are on integer grids;  *)
(* a comparison with kEpsilon = 1e-9 is then a comparison with 0.           *)

\* Levels in one apply_snapshot or apply_update call of SpecBook, both sides
\* together.
MaxLevels == 1

\* Depths microprice is asked for: 0..MaxDepth.
MaxDepth == 2

\* orderbook.cpp:11, 1e-9 on the integer grid.
kEpsilon == 0

Prices == {10, 11, 12}
Qtys == {1, 2}
UpdateIds == {1, 2}

\* struct PriceLevel as the callers of OrderBook may pass it: a level of the
\* grid, a level with quantity 0 (a removal), a level whose price is no price.
Levels ==
    [price : Prices, quantity : Qtys \cup {0}]
    \cup { [price |-> 0, quantity |-> 1] }

\* std::map::operator[] assignment, erase.
MapSet(m, p, q) == [x \in (DOMAIN m) \cup {p} |-> IF x = p THEN q ELSE m[x]]
MapErase(m, p) ==
    IF (DOMAIN m) \ {p} = {} THEN <<>>
    ELSE [x \in (DOMAIN m) \ {p} |-> m[x]]

SetMax(S) == CHOOSE x \in S : \A y \in S : y <= x
SetMin(S) == CHOOSE x \in S : \A y \in S : x <= y

\* apply_snapshot, lines 26-36: the loop that fills a cleared side.
RECURSIVE insert_levels(_, _, _)
insert_levels(m, levels, i) ==
    IF i > Len(levels) THEN m
    ELSE LET level == levels[i]
         IN  IF level.price > kEpsilon /\ level.quantity > kEpsilon
             THEN insert_levels(MapSet(m, level.price, level.quantity), levels, i + 1)
             ELSE insert_levels(m, levels, i + 1)

\* update_bids with a slip: a positive quantity is added to the level's.
RECURSIVE update_bids_additive(_, _, _)
update_bids_additive(m, updates, i) ==
    IF i > Len(updates) THEN m
    ELSE LET level == updates[i]
             old == IF level.price \in DOMAIN m THEN m[level.price] ELSE 0
         IN  IF level.quantity <= kEpsilon
             THEN update_bids_additive(MapErase(m, level.price), updates, i + 1)
             ELSE IF level.price > kEpsilon
                  THEN update_bids_additive(MapSet(m, level.price, old + level.quantity),
                                            updates, i + 1)
                  ELSE update_bids_additive(m, updates, i + 1)

\* update_bids, lines 54-64.
RECURSIVE update_bids(_, _, _)
update_bids(m, updates, i) ==
    IF i > Len(updates) THEN m
    ELSE LET level == updates[i]
         IN  IF level.quantity <= kEpsilon
             THEN update_bids(MapErase(m, level.price), updates, i + 1)
             ELSE IF level.price > kEpsilon
                  THEN update_bids(MapSet(m, level.price, level.quantity), updates, i + 1)
                  ELSE update_bids(m, updates, i + 1)

\* update_asks, lines 66-76.
RECURSIVE update_asks(_, _, _)
update_asks(m, updates, i) ==
    IF i > Len(updates) THEN m
    ELSE LET level == updates[i]
         IN  IF level.quantity <= kEpsilon
             THEN update_asks(MapErase(m, level.price), updates, i + 1)
             ELSE IF level.price > kEpsilon
                  THEN update_asks(MapSet(m, level.price, level.quantity), updates, i + 1)
                  ELSE update_asks(m, updates, i + 1)

\* OrderBook::apply_snapshot(bids, asks, update_id)
apply_snapshot(bids, asks, update_id) ==
    /\ bids_' = insert_levels(<<>>, bids, 1)
    /\ asks_' = insert_levels(<<>>, asks, 1)
    /\ last_update_id_' = update_id

\* OrderBook::apply_update(bid_updates, ask_updates, update_id)
apply_update(bid_updates, ask_updates, update_id) ==
    /\ bids_' = update_bids(bids_, bid_updates, 1)
    /\ asks_' = update_asks(asks_, ask_updates, 1)
    /\ last_update_id_' = update_id

\* OrderBook::clear()
clear ==
    /\ bids_' = <<>>
    /\ asks_' = <<>>
    /\ last_update_id_' = 0

\* OrderBook::best_bid(): bids_ is ordered by std::greater, begin() is the
\* highest price.
best_bid == IF DOMAIN bids_ = {} THEN 0 ELSE SetMax(DOMAIN bids_)

\* OrderBook::best_ask(): asks_ is ordered ascending, begin() is the lowest.
best_ask == IF DOMAIN asks_ = {} THEN 0 ELSE SetMin(DOMAIN asks_)

\* is_valid with a slip: <= for <, a locked book passes.
is_valid_locked ==
    /\ DOMAIN bids_ # {}
    /\ DOMAIN asks_ # {}
    /\ SetMax(DOMAIN bids_) <= SetMin(DOMAIN asks_)

\* OrderBook::is_valid()
is_valid ==
    /\ DOMAIN bids_ # {}
    /\ DOMAIN asks_ # {}
    /\ SetMax(DOMAIN bids_) < SetMin(DOMAIN asks_)

\* compute_microprice, lines 118-125: the notional of the first depth_levels
\* bids, from the highest price down; S is the part of the map not yet visited.
RECURSIVE bid_volume(_, _, _)
bid_volume(S, count, depth_levels) ==
    IF S = {} \/ count >= depth_levels THEN 0
    ELSE LET price == SetMax(S)
         IN  price * bids_[price] + bid_volume(S \ {price}, count + 1, depth_levels)

\* compute_microprice, lines 127-134: the same over the asks, lowest price up.
RECURSIVE ask_volume(_, _, _)
ask_volume(S, count, depth_levels) ==
    IF S = {} \/ count >= depth_levels THEN 0
    ELSE LET price == SetMin(S)
         IN  price * asks_[price] + ask_volume(S \ {price}, count + 1, depth_levels)

\* compute_microprice with a slip: total_volume leaves out the ask side.
compute_microprice_total(depth_levels) ==
    IF DOMAIN bids_ = {} \/ DOMAIN asks_ = {} THEN <<0, 1>>
    ELSE LET bv == bid_volume(DOMAIN bids_, 0, depth_levels)
             av == ask_volume(DOMAIN asks_, 0, depth_levels)
         IN  IF bv <= kEpsilon \/ av <= kEpsilon
             THEN <<best_bid + best_ask, 2>>
             ELSE <<best_bid * av + best_ask * bv, bv>>

\* OrderBook::compute_microprice(depth_levels), as the exact fraction
\* <<numerator, denominator>> of the value the code computes in doubles:
\* best_bid * (ask_volume / total) + best_ask * (bid_volume / total).
compute_microprice(depth_levels) ==
    IF DOMAIN bids_ = {} \/ DOMAIN asks_ = {} THEN <<0, 1>>
    ELSE LET bv == bid_volume(DOMAIN bids_, 0, depth_levels)
             av == ask_volume(DOMAIN asks_, 0, depth_levels)
         IN  IF bv <= kEpsilon \/ av <= kEpsilon
             THEN <<best_bid + best_ask, 2>>
             ELSE <<best_bid * av + best_ask * bv, bv + av>>

\* The level lists of one call, <<bids, asks>>: MaxLevels levels together.
LevelLists(n) == [1..n -> Levels]

LevelInputs ==
    UNION { UNION { LevelLists(nb) \X LevelLists(na) : na \in 0..(MaxLevels - nb) } :
              nb \in 0..MaxLevels }

\* The OrderBook operations as its caller runs them.
BookApplySnapshot ==
    \E lv \in LevelInputs, update_id \in UpdateIds :
        /\ apply_snapshot(lv[1], lv[2], update_id)
        /\ lastOp' = "apply_snapshot"
        /\ UNCHANGED <<file, ledgerVars, feedVars, lockVars, strategyVars>>

BookApplyUpdate ==
    \E lv \in LevelInputs, update_id \in UpdateIds :
        /\ apply_update(lv[1], lv[2], update_id)
        /\ lastOp' = "apply_update"
        /\ UNCHANGED <<file, ledgerVars, feedVars, lockVars, strategyVars>>

BookClear ==
    /\ clear
    /\ lastOp' = "clear"
    /\ UNCHANGED <<file, ledgerVars, feedVars, lockVars, strategyVars>>

InitBook ==
    /\ file = <<>>
    /\ Fresh

NextBook ==
    \/ BookApplySnapshot
    \/ BookApplyUpdate
    \/ BookClear

SpecBook == InitBook /\ [][NextBook]_vars

-----------------------------------------------------------------------------
(* OrderBook under its mutex (orderbook.hpp:109).  One writer thread runs   *)
(* apply_snapshot, apply_update and clear statement by statement under a    *)
(* std::unique_lock; reader threads run the getters, each read under a      *)
(* std::shared_lock.                                                       *)

\* What the writer passes in: one level of the bid at 10, of the ask at 11.
WriterLevelInputs ==
    { lv \in LevelInputs :
        /\ \A i \in 1..Len(lv[1]) : lv[1][i].price = 10 /\ lv[1][i].quantity <= 1
        /\ \A i \in 1..Len(lv[2]) : lv[2][i].price = 11 /\ lv[2][i].quantity <= 1 }

WriterCalls ==
    [op : {"apply_snapshot", "apply_update"}, bids : {lv[1] : lv \in WriterLevelInputs},
     asks : {lv[2] : lv \in WriterLevelInputs}, update_id : {1}]
    \cup { [op |-> "clear", bids |-> <<>>, asks |-> <<>>, update_id |-> 0] }

\* The getters a reader calls, with their arguments.
ReaderDepths == {1}

ReaderCalls ==
    [op : {"best_bid", "best_ask", "spread", "is_valid"}, is_bid : {TRUE}, levels : {0}]
    \cup [op : {"microprice", "get_snapshot"}, is_bid : {TRUE}, levels : ReaderDepths]
    \cup [op : {"cumulative_volume", "get_levels"}, is_bid : BOOLEAN, levels : ReaderDepths]

\* OrderBook::spread(), lines 97-100, from the two prices it has read.
spread(bid, ask) ==
    IF bid <= kEpsilon \/ ask <= kEpsilon \/ ask <= bid THEN 0 ELSE ask - bid

\* OrderBook::cumulative_volume(is_bid, levels)
cumulative_volume(is_bid, levels) ==
    IF is_bid THEN bid_volume(DOMAIN bids_, 0, levels)
    ELSE ask_volume(DOMAIN asks_, 0, levels)

\* OrderBook::get_bids(levels): the first levels of bids_, highest price first.
RECURSIVE get_bids(_, _, _)
get_bids(S, count, levels) ==
    IF S = {} \/ count >= levels THEN <<>>
    ELSE LET price == SetMax(S)
         IN  <<[price |-> price, quantity |-> bids_[price]]>>
             \o get_bids(S \ {price}, count + 1, levels)

\* OrderBook::get_asks(levels): the first levels of asks_, lowest price first.
RECURSIVE get_asks(_, _, _)
get_asks(S, count, levels) ==
    IF S = {} \/ count >= levels THEN <<>>
    ELSE LET price == SetMin(S)
         IN  <<[price |-> price, quantity |-> asks_[price]]>>
             \o get_asks(S \ {price}, count + 1, levels)

\* OrderBook::get_snapshot(depth_levels, include_full_depth = true)
get_snapshot(depth_levels) ==
    IF DOMAIN bids_ = {} \/ DOMAIN asks_ = {}
    THEN [best_bid |-> 0, best_ask |-> 0, spread |-> 0, bid_volume |-> 0, ask_volume |-> 0,
          microprice |-> <<0, 1>>, last_update_id |-> 0, bids |-> <<>>, asks |-> <<>>]
    ELSE [best_bid |-> best_bid, best_ask |-> best_ask, spread |-> best_ask - best_bid,
          bid_volume |-> bid_volume(DOMAIN bids_, 0, depth_levels),
          ask_volume |-> ask_volume(DOMAIN asks_, 0, depth_levels),
          microprice |-> compute_microprice(depth_levels),
          last_update_id |-> last_update_id_,
          bids |-> get_bids(DOMAIN bids_, 0, depth_levels),
          asks |-> get_asks(DOMAIN asks_, 0, depth_levels)]

\* What one locked read of the getter `call` yields on the book as it stands.
\* For spread() this is the value taken from one book: spread of its two
\* best prices.
Getter(call) ==
    CASE call.op = "best_bid" -> best_bid
      [] call.op = "best_ask" -> best_ask
      [] call.op = "spread" -> spread(best_bid, best_ask)
      [] call.op = "is_valid" -> is_valid
      [] call.op = "microprice" -> compute_microprice(call.levels)
      [] call.op = "get_snapshot" -> get_snapshot(call.levels)
      [] call.op = "cumulative_volume" -> cumulative_volume(call.is_bid, call.levels)
      [] call.op = "get_levels" ->
            IF call.is_bid THEN get_bids(DOMAIN bids_, 0, call.levels)
            ELSE get_asks(DOMAIN asks_, 0, call.levels)

\* The writer enters apply_snapshot, apply_update or clear: the
\* std::unique_lock of its first line (21, 45, 406) is granted when no thread
\* holds the mutex.
unique_lock ==
    \E call \in WriterCalls :
        /\ writer = NoCall
        /\ ~mutex_.unique /\ mutex_.shared = {}
        /\ mutex_' = [mutex_ EXCEPT !.unique = TRUE]
        /\ writer' = [op |-> call.op,
                      pc |-> IF call.op = "apply_update" THEN "update_bids" ELSE "clear_bids",
                      bids |-> call.bids, asks |-> call.asks, update_id |-> call.update_id]
        /\ UNCHANGED <<file, ledgerVars, strategyVars, bookVars, feedVars, reader, seen, lastOp, client, notify>>

\* One statement of the writer's call, the mutex held.
WriterStep ==
    /\ writer.op # "none"
    /\ \/ /\ writer.pc = "clear_bids"
          /\ bids_' = <<>>
          /\ writer' = [writer EXCEPT !.pc = "clear_asks"]
          /\ UNCHANGED <<asks_, last_update_id_>>
       \/ /\ writer.pc = "clear_asks"
          /\ asks_' = <<>>
          /\ writer' = [writer EXCEPT
                          !.pc = IF writer.op = "apply_snapshot" THEN "fill_bids" ELSE "set_id"]
          /\ UNCHANGED <<bids_, last_update_id_>>
       \/ /\ writer.pc = "fill_bids"
          /\ bids_' = insert_levels(bids_, writer.bids, 1)
          /\ writer' = [writer EXCEPT !.pc = "fill_asks"]
          /\ UNCHANGED <<asks_, last_update_id_>>
       \/ /\ writer.pc = "fill_asks"
          /\ asks_' = insert_levels(asks_, writer.asks, 1)
          /\ writer' = [writer EXCEPT !.pc = "set_id"]
          /\ UNCHANGED <<bids_, last_update_id_>>
       \/ /\ writer.pc = "update_bids"
          /\ bids_' = update_bids(bids_, writer.bids, 1)
          /\ writer' = [writer EXCEPT !.pc = "update_asks"]
          /\ UNCHANGED <<asks_, last_update_id_>>
       \/ /\ writer.pc = "update_asks"
          /\ asks_' = update_asks(asks_, writer.asks, 1)
          /\ writer' = [writer EXCEPT !.pc = "set_id"]
          /\ UNCHANGED <<bids_, last_update_id_>>
       \/ /\ writer.pc = "set_id"
          /\ last_update_id_' = writer.update_id
          /\ writer' = [writer EXCEPT !.pc = "unlock"]
          /\ UNCHANGED <<bids_, asks_>>
    /\ UNCHANGED <<file, ledgerVars, strategyVars, feedVars, mutex_, reader, seen, lastOp, client, notify>>

\* The writer's call returns and its lock is released: the book as it stands
\* is the book between this call and the writer's next one.
unique_unlock ==
    /\ writer.op # "none" /\ writer.pc = "unlock"
    /\ mutex_' = [mutex_ EXCEPT !.unique = FALSE]
    /\ writer' = NoCall
    /\ lastOp' = writer.op
    /\ seen' = [r \in Readers |->
                  IF reader[r].pc \in {"idle", "done"} THEN seen[r]
                  ELSE seen[r] \cup {Getter(reader[r])}]
    /\ UNCHANGED <<file, ledgerVars, strategyVars, bookVars, feedVars, reader, client, notify>>

\* A reader calls a getter.
ReaderCall(r) ==
    \E call \in ReaderCalls :
        /\ reader[r] = NoCall
        /\ reader' = [reader EXCEPT ![r] =
                        [op |-> call.op, pc |-> "lock", is_bid |-> call.is_bid,
                         levels |-> call.levels, bid |-> 0, result |-> 0]]
        /\ seen' = [seen EXCEPT ![r] = IF mutex_.unique THEN {} ELSE {Getter(call)}]
        /\ UNCHANGED <<file, ledgerVars, strategyVars, bookVars, feedVars, mutex_, writer, lastOp, client, notify>>

\* std::shared_lock of a getter: granted when the writer does not hold the
\* mutex.  spread() takes it twice, in best_bid() and then in best_ask()
\* (lines 95-96).
shared_lock(r) ==
    /\ reader[r].pc \in {"lock", "lock_ask"}
    /\ ~mutex_.unique
    /\ mutex_' = [mutex_ EXCEPT !.shared = @ \cup {r}]
    /\ reader' = [reader EXCEPT ![r].pc = IF @ = "lock" THEN "read" ELSE "read_ask"]
    /\ UNCHANGED <<file, ledgerVars, strategyVars, bookVars, feedVars, writer, seen, lastOp, client, notify>>

\* The body of a getter and the release of its shared lock.
ReaderRead(r) ==
    /\ reader[r].pc \in {"read", "read_ask"}
    /\ mutex_' = [mutex_ EXCEPT !.shared = @ \ {r}]
    /\ reader' = [reader EXCEPT ![r] =
                    IF reader[r].op = "spread" /\ reader[r].pc = "read"
                    THEN [reader[r] EXCEPT !.bid = best_bid, !.pc = "lock_ask"]
                    ELSE IF reader[r].op = "spread"
                         THEN [reader[r] EXCEPT !.result = spread(reader[r].bid, best_ask),
                                                !.pc = "done"]
                         ELSE [reader[r] EXCEPT !.result = Getter(reader[r]), !.pc = "done"]]
    /\ UNCHANGED <<file, ledgerVars, strategyVars, bookVars, feedVars, writer, seen, lastOp, client, notify>>

\* The getter has returned reader[r].result; the reader goes on.
ReaderReturn(r) ==
    /\ reader[r].pc = "done"
    /\ reader' = [reader EXCEPT ![r] = NoCall]
    /\ seen' = [seen EXCEPT ![r] = {}]
    /\ UNCHANGED <<file, ledgerVars, strategyVars, bookVars, feedVars, mutex_, writer, lastOp, client, notify>>

InitBookShared ==
    /\ file = <<>>
    /\ Fresh

NextBookShared ==
    \/ unique_lock
    \/ WriterStep
    \/ unique_unlock
    \/ \E r \in Readers : ReaderCall(r)
    \/ \E r \in Readers : shared_lock(r)
    \/ \E r \in Readers : ReaderRead(r)
    \/ \E r \in Readers : ReaderReturn(r)

SpecBookShared == InitBookShared /\ [][NextBookShared]_vars

-----------------------------------------------------------------------------
(* OrderBookManager (orderbook_manager.cpp): the depth feed.  An optional   *)
(* field of a message is <<>> when absent (or an empty string) and <<n>>    *)
(* when it carries n; the versions a message carries are decimal strings,   *)
(* read by std::stoll.                                                     *)

\* Raw levels per side of a depth message or REST snapshot.
MaxRawLevels == 1

\* handle_depth_message, lines 265, 279, 301, 312: the gap limits.
kMaxFirstGap == 5000
kMaxBackGap == 100
kMaxForwardGap == 100

FeedBidPrices == {10}
FeedAskPrices == {11}
FeedQtys == {0, 1}
\* The versions are chosen so that every gap limit is met on both of its
\* sides: after 1, 102 is 100 ahead and 103 is 101 ahead; 3 is 100 behind
\* what follows 102 and 101 behind what follows 103; after a snapshot at 103,
\* 5104 is 5000 ahead and 5105 is 5001 ahead.
Versions == {1, 3, 102, 103, 5104, 5105}
RestIds == {0, 102, 103}
Timestamps == {3}

\* A level as the exchange sends it: [price, quantity], quantity 0 for a
\* level that is gone.
RawBidLevels == [price : FeedBidPrices, quantity : FeedQtys]
RawAskLevels == [price : FeedAskPrices, quantity : FeedQtys]

RawBids == UNION { [1..n -> RawBidLevels] : n \in 0..MaxRawLevels }
RawAsks == UNION { [1..n -> RawAskLevels] : n \in 0..MaxRawLevels }

\* OrderBookManager::parse_depth_levels, lines 497-526.
RECURSIVE parse_depth_levels(_, _)
parse_depth_levels(levels, i) ==
    IF i > Len(levels) THEN <<>>
    ELSE IF levels[i].price > 0 /\ levels[i].quantity > 0
         THEN <<levels[i]>> \o parse_depth_levels(levels, i + 1)
         ELSE parse_depth_levels(levels, i + 1)

\* The version fields of a message: fromVersion, toVersion and the fallback
\* field (version or lastUpdateId), which the code reads only when the first
\* two give no id.
VersionFields ==
    { [from |-> <<>>, to |-> <<>>, version |-> v] : v \in {<<>>, <<2>>} }
    \cup { [from |-> <<f>>, to |-> <<f>>, version |-> <<>>] : f \in Versions }
    \cup { [from |-> <<f>>, to |-> <<>>, version |-> <<>>] : f \in {1, 102} }
    \cup { [from |-> <<>>, to |-> <<t>>, version |-> <<>>] : t \in {1, 102} }

\* The message formats of lines 116-143: {"c","d"}, {"channel","data"} (with
\* what its channel name contains and its optional "ts"), and bare depth data.
Envelopes ==
    { [format |-> "cd", depth |-> TRUE, snapshot |-> FALSE, ts |-> <<>>],
      [format |-> "direct", depth |-> FALSE, snapshot |-> FALSE, ts |-> <<>>] }
    \cup { [format |-> "data", depth |-> TRUE, snapshot |-> s, ts |-> <<>>] : s \in BOOLEAN }
    \cup { [format |-> "data", depth |-> d, snapshot |-> d, ts |-> <<t>>] :
             d \in BOOLEAN, t \in Timestamps }

\* lines 116-143: is_snapshot.
is_snapshot(env, raw_bids, raw_asks) ==
    IF env.format = "cd"
    THEN last_update_id_ = 0 /\ raw_bids # <<>> /\ raw_asks # <<>>
    ELSE IF env.format = "data"
         THEN env.depth /\ (env.snapshot \/ last_update_id_ = 0)
         ELSE FALSE

\* lines 112, 137-139, 183-219: update_id.
update_id_of(env, ver) ==
    LET ts == IF env.format = "data" /\ env.ts # <<>> THEN env.ts[1] ELSE 0
        id1 == IF ver.to # <<>> THEN ver.to[1] ELSE ts
        id2 == IF id1 = 0 /\ ver.from # <<>> THEN ver.from[1] ELSE id1
    IN  IF id2 = 0 /\ ver.version # <<>> THEN ver.version[1] ELSE id2

\* The continuity check without the reset of lines 301-310: a message more
\* than kMaxForwardGap ahead of last_to_version_ is dropped.
version_gate_stall(ver) ==
    LET same == [reject |-> FALSE, snapshot_version |-> snapshot_version_,
                 last_to_version |-> last_to_version_]
    IN  IF ~(ver.from # <<>> /\ ver.to # <<>>) \/ last_to_version_ = <<>> THEN same
        ELSE LET gap == ver.from[1] - (last_to_version_[1] + 1)
             IN  IF gap > kMaxForwardGap \/ gap < -kMaxBackGap
                 THEN [same EXCEPT !.reject = TRUE]
                 ELSE same

\* The continuity check without the limit of lines 265-270: the first message
\* after a snapshot moves the anchor however far ahead it is.
version_gate_unbounded(ver) ==
    LET same == [reject |-> FALSE, snapshot_version |-> snapshot_version_,
                 last_to_version |-> last_to_version_]
    IN  IF ~(ver.from # <<>> /\ ver.to # <<>>) \/ last_to_version_ # <<>> THEN same
        ELSE LET gap == ver.from[1] - (snapshot_version_ + 1)
             IN  IF gap > 0 THEN [same EXCEPT !.snapshot_version = ver.from[1] - 1]
                 ELSE IF snapshot_version_ > 0 /\ gap < -kMaxBackGap
                      THEN [same EXCEPT !.reject = TRUE]
                      ELSE same

\* The continuity check with one tolerance for both cases: the first message
\* after a snapshot is dropped when it is more than kMaxForwardGap ahead.
version_gate_strict(ver) ==
    LET same == [reject |-> FALSE, snapshot_version |-> snapshot_version_,
                 last_to_version |-> last_to_version_]
    IN  IF ~(ver.from # <<>> /\ ver.to # <<>>) THEN same
        ELSE LET from_version_num == ver.from[1]
             IN  IF last_to_version_ = <<>>
                 THEN IF snapshot_version_ > 0
                      THEN LET gap == from_version_num - (snapshot_version_ + 1)
                           IN  IF gap > kMaxForwardGap THEN [same EXCEPT !.reject = TRUE]
                               ELSE IF gap > 0
                                    THEN [same EXCEPT !.snapshot_version = from_version_num - 1]
                                    ELSE IF gap < 0 /\ -gap > kMaxBackGap
                                         THEN [same EXCEPT !.reject = TRUE]
                                         ELSE same
                      ELSE IF from_version_num > 0
                           THEN [same EXCEPT !.snapshot_version = from_version_num - 1]
                           ELSE same
                 ELSE LET gap == from_version_num - (last_to_version_[1] + 1)
                      IN  IF gap > kMaxForwardGap
                          THEN [same EXCEPT !.last_to_version = <<from_version_num - 1>>]
                          ELSE IF gap < 0 /\ -gap > kMaxBackGap
                               THEN [same EXCEPT !.reject = TRUE]
                               ELSE same

\* lines 222 and 256-328, the version continuity check: whether the message
\* is dropped, and snapshot_version_ and last_to_version_ as the check leaves
\* them.
version_gate(ver) ==
    LET same == [reject |-> FALSE, snapshot_version |-> snapshot_version_,
                 last_to_version |-> last_to_version_]
    IN  IF ~(ver.from # <<>> /\ ver.to # <<>>) THEN same
        ELSE LET from_version_num == ver.from[1]
             IN  IF last_to_version_ = <<>>
                 THEN IF snapshot_version_ > 0
                      THEN LET gap == from_version_num - (snapshot_version_ + 1)
                           IN  IF gap > kMaxFirstGap THEN [same EXCEPT !.reject = TRUE]
                               ELSE IF gap > 0
                                    THEN [same EXCEPT !.snapshot_version = from_version_num - 1]
                                    ELSE IF gap < 0 /\ -gap > kMaxBackGap
                                         THEN [same EXCEPT !.reject = TRUE]
                                         ELSE same
                      ELSE IF from_version_num > 0
                           THEN [same EXCEPT !.snapshot_version = from_version_num - 1]
                           ELSE same
                 ELSE LET gap == from_version_num - (last_to_version_[1] + 1)
                      IN  IF gap > kMaxForwardGap
                          THEN [same EXCEPT !.last_to_version = <<from_version_num - 1>>]
                          ELSE IF gap < 0 /\ -gap > kMaxBackGap
                               THEN [same EXCEPT !.reject = TRUE]
                               ELSE same

\* A REST depth response as subscribe reads it (lines 24-30): "none" when
\* there is no REST client, the request fails or the response lacks a side.
RestSnapshots ==
    { [kind |-> "none", bids |-> <<>>, asks |-> <<>>, lastUpdateId |-> 0] }
    \cup [kind : {"depth"}, bids : RawBids, asks : RawAsks, lastUpdateId : RestIds]

\* OrderBookManager::subscribe(ws_client, rest_client); success is what
\* ws_client.subscribe_depth returns.
subscribe(rest, success) ==
    /\ lastOp' = "subscribe"
    /\ IF subscribed_
       THEN /\ ret' = TRUE
            /\ UNCHANGED <<bookVars, last_to_version_, snapshot_version_, subscribed_,
                           depth_callback_>>
       ELSE /\ LET bids == parse_depth_levels(rest.bids, 1)
                   asks == parse_depth_levels(rest.asks, 1)
               IN  IF rest.kind = "depth" /\ bids # <<>> /\ asks # <<>>
                   THEN /\ apply_snapshot(bids, asks, rest.lastUpdateId)
                        /\ snapshot_version_' = rest.lastUpdateId
                        /\ last_to_version_' = <<>>
                   ELSE UNCHANGED <<bookVars, last_to_version_, snapshot_version_>>
            /\ depth_callback_' = TRUE
            /\ subscribed_' = (subscribed_ \/ success)
            /\ ret' = success
    /\ UNCHANGED <<file, ledgerVars, message, lockVars, strategyVars>>

\* OrderBookManager::unsubscribe(ws_client)
unsubscribe ==
    /\ lastOp' = "unsubscribe"
    /\ subscribed_' = FALSE
    /\ UNCHANGED <<file, ledgerVars, lockVars, strategyVars, bookVars, last_to_version_, snapshot_version_,
                   depth_callback_, ret, message>>

\* OrderBookManager::handle_depth_message(message), message being the
\* envelope, the raw levels and the version fields.
handle_depth_message(env, raw_bids, raw_asks, ver) ==
    LET bids == parse_depth_levels(raw_bids, 1)
        asks == parse_depth_levels(raw_asks, 1)
        update_id == update_id_of(env, ver)
        gate == version_gate(ver)
        tracked == IF ver.to # <<>> THEN ver.to
                   ELSE IF update_id > 0 THEN <<update_id>>
                   ELSE gate.last_to_version
    IN  /\ lastOp' = "handle_depth_message"
        /\ message' = ver
        /\ IF bids = <<>> /\ asks = <<>>
           THEN \* line 159
                /\ ret' = FALSE
                /\ UNCHANGED <<bookVars, last_to_version_, snapshot_version_>>
           ELSE IF gate.reject
           THEN \* lines 270, 283, 318
                /\ ret' = FALSE
                /\ UNCHANGED <<bookVars, last_to_version_, snapshot_version_>>
           ELSE IF is_snapshot(env, raw_bids, raw_asks)
           THEN \* lines 334-335, 393-400
                /\ apply_snapshot(bids, asks, update_id)
                /\ snapshot_version_' = update_id
                /\ last_to_version_' = tracked
                /\ ret' = TRUE
           ELSE IF is_valid \/ (bids # <<>> /\ asks # <<>>)
           THEN \* lines 379, 393-400
                /\ apply_update(bids, asks, update_id)
                /\ snapshot_version_' = gate.snapshot_version
                /\ last_to_version_' = tracked
                /\ ret' = TRUE
           ELSE \* line 385: what the version check wrote stays written
                /\ ret' = FALSE
                /\ snapshot_version_' = gate.snapshot_version
                /\ last_to_version_' = gate.last_to_version
                /\ UNCHANGED bookVars
        /\ UNCHANGED <<file, ledgerVars, lockVars, strategyVars, subscribed_, depth_callback_>>

Subscribe == \E rest \in RestSnapshots, success \in BOOLEAN : subscribe(rest, success)

\* The WebSocket client delivers a depth message to the callback subscribe set.
HandleDepthMessage ==
    /\ depth_callback_
    /\ \E env \in Envelopes, raw_bids \in RawBids, raw_asks \in RawAsks, ver \in VersionFields :
          handle_depth_message(env, raw_bids, raw_asks, ver)

InitFeed ==
    /\ file = <<>>
    /\ Fresh

NextFeed ==
    \/ Subscribe
    \/ unsubscribe
    \/ HandleDepthMessage

SpecFeed == InitFeed /\ [][NextFeed]_vars

\* The aggregated depth stream alone: every message carries fromVersion and
\* toVersion, in the {"c","d"} format or as {"channel","data"} marked as a
\* snapshot.
VersionedFields == {ver \in VersionFields : ver.from # <<>> /\ ver.to # <<>>}
VersionedEnvelopes == {env \in Envelopes : env.ts = <<>> /\ (env.format = "cd" \/ env.snapshot)}

HandleVersionedMessage ==
    /\ depth_callback_
    /\ \E env \in VersionedEnvelopes, raw_bids \in RawBids, raw_asks \in RawAsks,
          ver \in VersionedFields :
          handle_depth_message(env, raw_bids, raw_asks, ver)

NextFeedVersioned ==
    \/ Subscribe
    \/ unsubscribe
    \/ HandleVersionedMessage

SpecFeedVersioned == InitFeed /\ [][NextFeedVersioned]_vars

\* The aggregated depth stream after subscribe: two-sided messages (a level
\* of positive price and quantity on each side) whose fromVersion/toVersion
\* increase from message to message.  The stream does not end; versions past
\* the top of the grid are kept as the top, which the gate treats as it
\* treats them: dropped while the first message is awaited too far ahead,
\* taken once a message has been taken.
TopVersion == CHOOSE v \in Versions : \A u \in Versions : u <= v

TwoSided(raw_bids, raw_asks) ==
    parse_depth_levels(raw_bids, 1) # <<>> /\ parse_depth_levels(raw_asks, 1) # <<>>

\* A message of the stream covers the versions from..to.
StreamFields ==
    { ver \in [from : {<<f>> : f \in Versions}, to : {<<t>> : t \in Versions},
               version : {<<>>}] : ver.from[1] <= ver.to[1] }

StreamSubscribe ==
    /\ lastOp = "none"
    /\ Subscribe

StreamMessage ==
    /\ depth_callback_
    /\ \E env \in VersionedEnvelopes, raw_bids \in RawBids, raw_asks \in RawAsks,
          ver \in StreamFields :
          /\ TwoSided(raw_bids, raw_asks)
          /\ IF message = NoMessage THEN TRUE
             ELSE \/ ver.from[1] > message.to[1]
                  \/ ver.from[1] = TopVersion /\ message.to[1] = TopVersion
          /\ handle_depth_message(env, raw_bids, raw_asks, ver)

NextStream ==
    \/ StreamSubscribe
    \/ StreamMessage

\* The owner of the manager subscribes once (orderbook_viewer_gui.cpp,
\* main.cpp), and the WebSocket thread hands every message it receives to the
\* callback.
SpecStream ==
    InitFeed /\ [][NextStream]_vars /\ WF_vars(StreamSubscribe) /\ WF_vars(StreamMessage)

-----------------------------------------------------------------------------
(* MarketMakerStrategy (market_maker.cpp): the rate-limit governor.         *)

\* A double whose value is a dyadic rational, as <<numerator, denominator>>
\* in lowest terms.
RECURSIVE Dyadic(_, _)
Dyadic(n, d) == IF d > 1 /\ n % 2 = 0 THEN Dyadic(n \div 2, d \div 2) ELSE <<n, d>>

\* 429 responses one behaviour of the governor meets.
MaxHits == 3

\* note_rate_limit_hit with a slip: the new backoff is not capped.
note_rate_limit_hit_nocap(s, t) ==
    LET b == s.current_backoff_ms_
        next == IF b[1] <= 0 THEN <<config_.rate_limit_backoff_ms_initial, 1>>
                ELSE Dyadic(3 * b[1], 2 * b[2])
    IN  [s EXCEPT !.rate_limited_this_loop_ = TRUE,
                  !.current_backoff_ms_ = next,
                  !.rate_limited_until_ = Max(@, t + (next[1] \div next[2]))]

\* MarketMakerStrategy::note_rate_limit_hit(), steady_clock::now() reading t.
\* static_cast<int>(current_backoff_ms_) drops the fraction.
note_rate_limit_hit(s, t) ==
    LET b == s.current_backoff_ms_
        next == IF b[1] <= 0 THEN <<config_.rate_limit_backoff_ms_initial, 1>>
                ELSE IF 3 * b[1] <= config_.rate_limit_backoff_ms_max * 2 * b[2]
                     THEN Dyadic(3 * b[1], 2 * b[2])
                     ELSE <<config_.rate_limit_backoff_ms_max, 1>>
    IN  [s EXCEPT !.rate_limited_this_loop_ = TRUE,
                  !.current_backoff_ms_ = next,
                  !.rate_limited_until_ = Max(@, t + (next[1] \div next[2]))]

\* note_request_success with a slip: the decay never clears.
note_request_success_noclear(s) ==
    IF s.rate_limited_this_loop_ THEN s
    ELSE LET b == s.current_backoff_ms_
             x == 2 * b[1] - config_.rate_limit_backoff_ms_initial * b[2]
         IN  IF b[1] > 0
             THEN [s EXCEPT !.current_backoff_ms_ =
                              IF x <= 0 THEN b ELSE Dyadic(x, 4 * b[2])]
             ELSE s

\* MarketMakerStrategy::note_request_success():
\* backoff * 0.5 - initial * 0.25 = (2n - initial * d) / 4d for backoff n/d.
note_request_success(s) ==
    IF s.rate_limited_this_loop_ THEN s
    ELSE LET b == s.current_backoff_ms_
             x == 2 * b[1] - config_.rate_limit_backoff_ms_initial * b[2]
             m == IF x <= 0 THEN <<0, 1>> ELSE Dyadic(x, 4 * b[2])
         IN  IF b[1] > 0
             THEN IF 2 * m[1] < config_.rate_limit_backoff_ms_initial * m[2]
                  THEN [s EXCEPT !.current_backoff_ms_ = <<0, 1>>,
                                 !.rate_limited_until_ = 0]
                  ELSE [s EXCEPT !.current_backoff_ms_ = m]
             ELSE s

\* run(), lines 321-327, at clock reading t: sleep until rate_limited_until_
\* and `continue` while it lies ahead, then clear the per-loop flag.  Yields
\* the clock reading after the gate.
rate_limit_gate(s, t) ==
    IF s.rate_limited_until_ # 0 /\ t < s.rate_limited_until_
    THEN s.rate_limited_until_ ELSE t

\* The governor's configurations: initial 4 ms and max 7 ms (0 -> 4 -> 6 -> 7),
\* initial = max, and the defaults.
GovernorConfigs ==
    { [DefaultConfig EXCEPT !.rate_limit_backoff_ms_initial = 4,
                            !.rate_limit_backoff_ms_max = 7],
      [DefaultConfig EXCEPT !.rate_limit_backoff_ms_initial = 4,
                            !.rate_limit_backoff_ms_max = 4],
      DefaultConfig }

\* Time that passes between two steps of the loop, and how far the clock of
\* the governor's behaviours runs.
GovernorSteps == {0, 5}
GovernorHorizon == StartTime + 10

\* A new iteration of run() passes the rate-limit gate.
LoopGate ==
    \E dt \in GovernorSteps :
        /\ now + dt <= GovernorHorizon \/ dt = 0
        /\ now' = rate_limit_gate(strategy, now + dt)
        /\ strategy' = [strategy EXCEPT !.rate_limited_this_loop_ = FALSE]
        /\ lastOp' = "run"
        /\ UNCHANGED <<file, ledgerVars, bookVars, feedVars, lockVars,
                       config_, hits, escapes, iteration>>

\* An exchange call of the iteration answers 429.
NoteRateLimitHit ==
    \E dt \in GovernorSteps :
        /\ hits < MaxHits
        /\ now + dt <= GovernorHorizon \/ dt = 0
        /\ now' = now + dt
        /\ strategy' = note_rate_limit_hit(strategy, now')
        /\ hits' = hits + 1
        /\ lastOp' = "note_rate_limit_hit"
        /\ UNCHANGED <<file, ledgerVars, bookVars, feedVars, lockVars,
                       config_, escapes, iteration>>

\* A step of the iteration ends well.
NoteRequestSuccess ==
    /\ strategy' = note_request_success(strategy)
    /\ lastOp' = "note_request_success"
    /\ UNCHANGED <<file, ledgerVars, bookVars, feedVars, lockVars,
                   config_, now, hits, escapes, iteration>>

InitGovernor ==
    /\ file = <<>>
    /\ LedgerFresh /\ BookFresh /\ FeedFresh /\ LockFresh /\ StrategyFresh
    /\ lastOp = "none"
    /\ config_ \in GovernorConfigs

NextGovernor ==
    \/ LoopGate
    \/ NoteRateLimitHit
    \/ NoteRequestSuccess

SpecGovernor == InitGovernor /\ [][NextGovernor]_vars

\* run() loops for ever (line 320): every iteration passes the gate, and an
\* iteration that meets no error ends with note_request_success (line 371).
SpecGovernorFair ==
    SpecGovernor /\ WF_vars(LoopGate) /\ WF_vars(NoteRequestSuccess)

-----------------------------------------------------------------------------
(* MarketMakerStrategy: the throttle of taker escapes.                      *)

\* Calls of throttle_taker_escape in one behaviour.
MaxEscapes == 4

\* market_maker.cpp:1152, std::chrono::seconds(60).
kEscapeWindowSeconds == 60

\* throttle_taker_escape with a slip: the cooldown of lines 1143-1149 is not
\* checked.
throttle_taker_escape_nocooldown(s, t) ==
    LET w == IF \/ s.escape_window_start_ = 0
                \/ (t - s.escape_window_start_) \div 1000 >= kEscapeWindowSeconds
             THEN [s EXCEPT !.escape_window_start_ = t, !.escape_count_window_ = 0]
             ELSE s
    IN  IF /\ config_.max_taker_escapes_per_min > 0
           /\ w.escape_count_window_ >= config_.max_taker_escapes_per_min
        THEN [strategy |-> w, result |-> FALSE]
        ELSE [strategy |-> [w EXCEPT !.last_escape_time_ = t,
                                     !.escape_count_window_ = @ + 1],
              result |-> TRUE]

\* MarketMakerStrategy::throttle_taker_escape(), system_clock::now() reading t
\* (milliseconds; duration_cast<seconds> drops the fraction of a second).
\* Yields the members after the call and what the call returns.
throttle_taker_escape(s, t) ==
    IF s.last_escape_time_ # 0
       /\ t - s.last_escape_time_ < config_.taker_escape_cooldown_ms
    THEN [strategy |-> s, result |-> FALSE]
    ELSE LET w == IF \/ s.escape_window_start_ = 0
                     \/ (t - s.escape_window_start_) \div 1000 >= kEscapeWindowSeconds
                  THEN [s EXCEPT !.escape_window_start_ = t, !.escape_count_window_ = 0]
                  ELSE s
         IN  IF /\ config_.max_taker_escapes_per_min > 0
                /\ w.escape_count_window_ >= config_.max_taker_escapes_per_min
             THEN [strategy |-> w, result |-> FALSE]
             ELSE [strategy |-> [w EXCEPT !.last_escape_time_ = t,
                                          !.escape_count_window_ = @ + 1],
                   result |-> TRUE]

\* The throttle's configurations.
ThrottleConfigs ==
    { [DefaultConfig EXCEPT !.taker_escape_cooldown_ms = c,
                            !.max_taker_escapes_per_min = m] :
        c \in {0, 1000, 5000}, m \in {0, 1, 2} }

\* Time between two calls of the throttle.
ThrottleSteps == {1000, 2000, 58000}

\* An escape has triggered and asks the throttle.
ThrottleTakerEscape ==
    \E dt \in ThrottleSteps :
        LET call == throttle_taker_escape(strategy, now + dt)
        IN  /\ Len(escapes) < MaxEscapes
            /\ now' = now + dt
            /\ strategy' = call.strategy
            /\ escapes' = Append(escapes, [time |-> now + dt, allowed |-> call.result])
            /\ lastOp' = "throttle_taker_escape"
            /\ UNCHANGED <<file, ledgerVars, bookVars, feedVars, lockVars,
                           config_, hits, iteration>>

InitThrottle ==
    /\ file = <<>>
    /\ LedgerFresh /\ BookFresh /\ FeedFresh /\ LockFresh /\ StrategyFresh
    /\ lastOp = "none"
    /\ config_ \in ThrottleConfigs

NextThrottle == ThrottleTakerEscape

SpecThrottle == InitThrottle /\ [][NextThrottle]_vars

-----------------------------------------------------------------------------
(* MarketMakerStrategy::run(): one iteration of the loop.  What the exchange *)
(* answers is the input of the iteration.  A step of the iteration takes a  *)
(* context c = [s, t, ...] (the members, the clock, and what the iteration  *)
(* has done so far) to the contexts it can leave behind.                    *)
(* Balances are kept as what refresh_balances leaves of them for the        *)
(* iteration's guards: both assets free, quote short of min_quote_order, or *)
(* base short of min_base_quantity.  The sizing arithmetic of               *)
(* ensure_starting_inventory and maintain_quotes and the symbol filters are *)
(* inputs (whether an order comes to be placed).                            *)

\* Iterations of run() in one behaviour.
MaxIterations == 3

\* The orders the exchange may list as open: a BUY and a SELL resting on the
\* strategy's account.
OpenOrderEntries ==
    { [client_id |-> 1, side |-> "BUY", price |-> 11, quantity |-> 1],
      [client_id |-> 2, side |-> "SELL", price |-> 12, quantity |-> 1] }

\* make_order_id(symbol, side_tag): an id no earlier call has returned (the
\* millisecond clock and a counter), here the iteration's number and the side.
make_order_id(n, side) == 2 * n + (IF side = "SELL" THEN 3 ELSE 4)

\* The WorkingOrder of an order the strategy places in iteration n.
OwnOrder(n, side) ==
    [client_id |-> make_order_id(n, side), side |-> side,
     price |-> IF side = "SELL" THEN 13 ELSE 10, quantity |-> 1]

\* parse_order_book's result: a calm book, and a book whose bid has fallen and
\* whose ask has risen past the escape thresholds.
Books ==
    { [best_bid |-> 11, best_ask |-> 12, microprice |-> 11],
      [best_bid |-> 10, best_ask |-> 13, microprice |-> 11] }

\* refresh_balances' result: quote_balance_ >= min_quote_order and
\* base_balance_ > min_base_quantity; quote_balance_ short; base_balance_ short.
Balances == {"funded", "no_quote", "no_base"}

\* compute_nav's result.
NavValues == {91, 100}

\* Time from the end of an iteration to the start of the next: the refresh
\* period (refresh_interval_ms, line 318).
LoopSteps == {1000}

\* The context at the start of an iteration; no_status tells that new_order
\* may answer a limit order without a status; outcomes is what the calls made
\* inside its steps may answer, limited the requests it has sent while
\* rate_limited_until_ lay ahead.
StartContext(n, s, t, balances, outcomes) ==
    [n |-> n, s |-> s, t |-> t, balances |-> balances, pc |-> "run",
     sent |-> {}, placed |-> {}, hits |-> 0,
     escapes |-> escapes, response |-> None, nav |-> None, risk_time |-> 0,
     cancel_issued |-> FALSE, outcomes |-> outcomes \ {"no_status"},
     no_status |-> "no_status" \in outcomes, limited |-> {}]

\* A request goes to the exchange at c.t (the test is that of lines 322-323).
Request(c, name) ==
    IF c.s.rate_limited_until_ # 0 /\ c.t < c.s.rate_limited_until_
    THEN [c EXCEPT !.limited = @ \cup {name}]
    ELSE c

\* A call of the iteration answers 429: note_rate_limit_hit().
Hit(c) == [c EXCEPT !.s = note_rate_limit_hit(c.s, c.t), !.hits = @ + 1]

\* The catch clauses of run(), lines 372-380: the iteration ends.
Caught(c, status) ==
    IF status = 429 THEN [Hit(c) EXCEPT !.pc = "end"] ELSE [c EXCEPT !.pc = "end"]

\* What the calls made inside the steps of an iteration (cancel_order,
\* query_order, new_order, my_trades, cancel_open_orders) answer.  A failure
\* other than 429 is logged and leaves the members as an answer does; a 429
\* adds note_rate_limit_hit(), which the steps below apply to the outcome
\* "429".  The behaviours of SpecLoop take the 429s of an iteration from the
\* calls of run()'s own try block (ClientCall); SpecLoopFaults and
\* SpecGovernor have the others.
CallOutcomes == {"ok"}
FaultyOutcomes == {"ok", "429"}

\* A client_ call of run() that may throw: it answers, or fails with 429, or
\* fails otherwise.
ClientCall(c, name) ==
    IF c.pc = "end" THEN {c}
    ELSE LET r == Request(c, name) IN {r, Caught(r, 429), Caught(r, 500)}

\* MarketMakerStrategy::refresh_open_orders(open_orders)
refresh_open_orders(s, open_orders) ==
    LET buys == {e \in open_orders : e.side = "BUY"}
        sells == {e \in open_orders : e.side = "SELL"}
    IN  [s EXCEPT
           !.buy_order_ = IF buys = {} THEN None
                          ELSE Some(CHOOSE e \in buys : \A f \in buys : f.price <= e.price),
           !.sell_order_ = IF sells = {} THEN None
                           ELSE Some(CHOOSE e \in sells : \A f \in sells : e.price <= f.price)]

\* MarketMakerStrategy::extract_open_client_order_ids(open_orders)
extract_open_client_order_ids(open_orders) == {e.client_id : e \in open_orders}

\* MarketMakerStrategy::reconcile_orders(open_ids)
reconcile_orders(s, open_ids) ==
    [s EXCEPT
       !.sell_order_ = IF @ # None /\ @[1].client_id \notin open_ids THEN None ELSE @,
       !.buy_order_ = IF @ # None /\ @[1].client_id \notin open_ids THEN None ELSE @]

\* run(), lines 333-336: the open orders are fetched and the tracked orders
\* rebuilt from them.
OpenOrders(c) ==
    IF c.pc = "end" THEN {c}
    ELSE { [c EXCEPT !.s = reconcile_orders(refresh_open_orders(c.s, open_orders),
                                             extract_open_client_order_ids(open_orders)),
                     !.response = Some(extract_open_client_order_ids(open_orders))] :
             open_orders \in SUBSET OpenOrderEntries }

\* pull_recent_trades(book), its effect on the governor: the poll is skipped
\* or fails otherwise (nothing), succeeds (line 898), or answers 429 (line 1004).
pull_recent_trades(c) ==
    IF c.pc = "end" THEN {c}
    ELSE LET r == Request(c, "my_trades")
         IN  {c, [r EXCEPT !.s = note_request_success(r.s)]}
             \cup {Hit(r) : o \in c.outcomes \ {"ok"}}

\* place_market_order(side, ...): the order fails the checks of lines
\* 1080-1101 and is not sent, or new_order is called and answers, or new_order
\* answers 429.
place_market_order(c, side, reason_tag, outcome) ==
    LET order == [type |-> "MARKET", side |-> side, tag |-> reason_tag]
        r == [Request(c, "new_order") EXCEPT !.sent = @ \cup {order}]
    IN  CASE outcome = "not_sent" -> c
          [] outcome = "sent" -> r
          [] outcome = "429" -> Hit(r)

\* place_limit_order(side, ...): not sent (lines 1015-1027); sent and answered
\* with status NEW or PARTIALLY_FILLED; sent and answered without a status
\* (line 1051 tests a status that is not empty); sent and answered with
\* another status or an error; sent and answered 429.
\* An order not sent leaves what an order not sized leaves, and is no input.
\* Yields the context and what the call returns.  The record of the order
\* sent tells whether the side's WorkingOrder was set when it was sent, and
\* what new_order answered.
place_limit_order(c, side, reason_tag, outcome) ==
    LET slot == IF side = "SELL" THEN c.s.sell_order_ ELSE c.s.buy_order_
        order == [type |-> "LIMIT", side |-> side, tag |-> reason_tag,
                  tracked |-> slot # None, answer |-> outcome]
        r == [Request(c, "new_order") EXCEPT !.sent = @ \cup {order}]
    IN  CASE outcome = "not_sent" -> [c |-> c, result |-> FALSE]
          [] outcome = "placed" -> [c |-> r, result |-> TRUE]
          [] outcome = "no_status" -> [c |-> r, result |-> TRUE]
          [] outcome = "rejected" -> [c |-> r, result |-> FALSE]
          [] outcome = "429" -> [c |-> Hit(r), result |-> FALSE]

LimitOutcomes(c) ==
    {"placed", "rejected"} \cup (c.outcomes \ {"ok"})
        \cup (IF c.no_status THEN {"no_status"} ELSE {})

\* What the exchange does to an escape: the cancel answers or fails with 429
\* (any other failure is only logged); wait_for_order_close sees the order
\* closed at its first poll, or runs to its deadline, a poll having answered
\* 429 or not; the market order.
EscapeInputs(c) ==
    [cancel : c.outcomes,
     wait : {"closed", "timeout"} \cup {"timeout_429" : o \in c.outcomes \ {"ok"}},
     market : {"sent"} \cup (c.outcomes \ {"ok"})]

\* enforce_escape_conditions, lines 650-663 and 689-702: cancel_order and
\* wait_for_order_close.
cancel_and_wait(c, in) ==
    LET c0 == Request(c, "cancel_order")
        c1 == IF in.cancel = "429" THEN Hit(c0) ELSE c0
        poll(a) == Request([a EXCEPT !.t = @ + config_.order_status_poll_ms], "query_order")
        deadline == c1.t + config_.order_status_timeout_ms
        c2 == poll(c1)
        \* the polls that follow the first until the deadline
        rest(a) == IF a.t < deadline THEN [poll(a) EXCEPT !.t = deadline] ELSE a
    IN  CASE in.wait = "closed" -> c2
          [] in.wait = "timeout" -> rest(c2)
          [] in.wait = "timeout_429" -> rest(Hit(c2))

\* enforce_escape_conditions, lines 638-647: the sell escape triggers.
\* escape_bps and escape_hysteresis_bps are basis points (1e-4).
sell_escape_triggers(s, book, open_ids, t) ==
    /\ s.sell_order_ # None
    /\ s.sell_order_[1].client_id \in open_ids
    /\ \/ s.last_sell_escape_event_ = 0
       \/ t - s.last_sell_escape_event_ >= config_.min_escape_interval_ms
    /\ book.best_bid > kEpsilon
    /\ book.best_bid * 10000
         < s.sell_order_[1].price
             * (10000 - config_.escape_bps - config_.escape_hysteresis_bps)
    /\ s.last_sell_escape_price_ > 0
         => book.best_bid * 10000
              < s.last_sell_escape_price_ * 10000
                  - s.sell_order_[1].price * config_.escape_hysteresis_bps

\* enforce_escape_conditions, lines 677-686: the buy escape triggers.
buy_escape_triggers(s, book, open_ids, t) ==
    /\ s.buy_order_ # None
    /\ s.buy_order_[1].client_id \in open_ids
    /\ \/ s.last_buy_escape_event_ = 0
       \/ t - s.last_buy_escape_event_ >= config_.min_escape_interval_ms
    /\ book.best_ask * 10000
         > s.buy_order_[1].price
             * (10000 + config_.escape_bps + config_.escape_hysteresis_bps)
    /\ s.last_buy_escape_price_ > 0
         => book.best_ask * 10000
              > s.last_buy_escape_price_ * 10000
                  + s.buy_order_[1].price * config_.escape_hysteresis_bps

\* enforce_escape_conditions, lines 665-669 and 704-709: the throttle is asked
\* when the order is large enough, and the market order follows when it allows.
throttle_and_take(c, side, reason_tag, size_ok, market) ==
    IF ~size_ok THEN c
    ELSE LET call == throttle_taker_escape(c.s, c.t)
             c1 == [c EXCEPT !.s = call.strategy,
                             !.escapes = Append(@, [time |-> c.t, allowed |-> call.result])]
         IN  IF call.result THEN place_market_order(c1, side, reason_tag, market) ELSE c1

\* enforce_escape_conditions, lines 648-672: the sell escape, `now` being the
\* clock reading of line 635.
escape_sell(c, book, escape_now, in) ==
    LET c1 == cancel_and_wait(c, in)
        notional == c.s.sell_order_[1].quantity * Max(book.best_bid, kEpsilon)
        c2 == throttle_and_take(c1, "SELL", "escape_sell",
                                notional >= config_.min_quote_order, in.market)
    IN  [c2 EXCEPT !.s.sell_order_ = None,
                   !.s.last_sell_escape_event_ = escape_now,
                   !.s.last_sell_escape_price_ = book.best_bid]

\* enforce_escape_conditions, lines 687-712: the buy escape; spend is
\* min(quote_balance_, ...), below min_quote_order when quote is short.
escape_buy(c, book, escape_now, in) ==
    LET c1 == cancel_and_wait(c, in)
        notional == c.s.buy_order_[1].quantity * Max(book.best_ask, kEpsilon)
        spend == IF c.balances = "no_quote" THEN 0
                 ELSE Max(config_.min_quote_order, notional)
        c2 == throttle_and_take(c1, "BUY", "escape_buy",
                                spend >= config_.min_quote_order, in.market)
    IN  [c2 EXCEPT !.s.buy_order_ = None,
                   !.s.last_buy_escape_event_ = escape_now,
                   !.s.last_buy_escape_price_ = book.best_ask]

\* MarketMakerStrategy::enforce_escape_conditions(book, open_ids)
enforce_escape_conditions(c, book) ==
    IF c.pc = "end" THEN {c}
    ELSE LET open_ids == c.response[1]
             after_sell ==
                 IF sell_escape_triggers(c.s, book, open_ids, c.t)
                 THEN {escape_sell(c, book, c.t, in) : in \in EscapeInputs(c)}
                 ELSE {c}
         IN  UNION { IF buy_escape_triggers(a.s, book, open_ids, c.t)
                     THEN {escape_buy(a, book, c.t, in) : in \in EscapeInputs(c)}
                     ELSE {a} : a \in after_sell }

\* MarketMakerStrategy::report_pnl(nav, base_share, first_iteration), and
\* line 355 of run().
report_pnl(s, nav) ==
    IF s.first_iteration \/ s.initial_nav_ = None
    THEN [s EXCEPT !.initial_nav_ = Some(nav), !.session_peak_nav_ = Some(nav),
                   !.first_iteration = FALSE]
    ELSE s

\* enforce_risk_limits, lines 1274-1276: the drawdown from the peak exceeds
\* max_drawdown_usd or max_drawdown_pct (a percentage here).
drawdown_breached(peak, nav) ==
    \/ config_.max_drawdown_usd > 0 /\ peak - nav > config_.max_drawdown_usd
    \/ /\ config_.max_drawdown_pct > 0
       /\ peak > kEpsilon
       /\ (peak - nav) * 100 > config_.max_drawdown_pct * peak

\* drawdown_recovered with a slip: the whole drawdown limit, not half of it.
drawdown_recovered_full(peak, nav) ==
    nav * 100 >= peak * (100 - config_.max_drawdown_pct)

\* enforce_risk_limits, line 1296: nav >= peak * (1 - 0.5 * max_drawdown_pct).
drawdown_recovered(peak, nav) ==
    nav * 200 >= peak * (200 - config_.max_drawdown_pct)

\* MarketMakerStrategy::enforce_risk_limits(nav, base_share); cancel_all_quotes
\* answers, or fails with 429.
enforce_risk_limits(c, nav, cancel) ==
    LET s == c.s
        seen_ == [c EXCEPT !.nav = Some(nav), !.risk_time = c.t]
    IN  IF s.initial_nav_ = None
        THEN [seen_ EXCEPT !.s.session_peak_nav_ = Some(nav),
                           !.s.trading_enabled_ = TRUE,
                           !.s.risk_disabled_since_ = 0]
        ELSE LET peak == IF s.session_peak_nav_ = None \/ nav > s.session_peak_nav_[1]
                         THEN nav ELSE s.session_peak_nav_[1]
                 c1 == [seen_ EXCEPT !.s.session_peak_nav_ = Some(peak)]
             IN  IF s.trading_enabled_
                 THEN IF drawdown_breached(peak, nav)
                      THEN LET c2 == [c1 EXCEPT !.s.trading_enabled_ = FALSE,
                                                !.s.risk_disabled_since_ = c.t,
                                                !.cancel_issued = TRUE]
                               c3 == Request(c2, "cancel_open_orders")
                           IN  IF cancel = "429" THEN Hit(c3) ELSE c3
                      ELSE c1
                 ELSE IF s.risk_disabled_since_ = 0
                      THEN [c1 EXCEPT !.s.risk_disabled_since_ = c.t]
                      ELSE IF /\ config_.risk_cooldown_ms > 0
                              /\ c.t - s.risk_disabled_since_ >= config_.risk_cooldown_ms
                              /\ drawdown_recovered(peak, nav)
                           THEN [c1 EXCEPT !.s.trading_enabled_ = TRUE,
                                           !.s.risk_disabled_since_ = 0]
                           ELSE c1

\* run(), lines 351-361: the risk check; the iteration ends when it fails.
RiskCheck(c) ==
    IF c.pc = "end" THEN {c}
    ELSE { LET c1 == enforce_risk_limits(c, nav, cancel)
               c2 == [c1 EXCEPT !.s = report_pnl(c1.s, nav)]
           IN  IF c2.s.trading_enabled_ THEN c2
               ELSE [c2 EXCEPT !.s = note_request_success(c2.s), !.pc = "end"] :
             nav \in NavValues, cancel \in c.outcomes }

\* ensure_starting_inventory, lines 736-740 and 754-758: the bootstrap order;
\* placed, it is tracked and the inventory is not ready.
boot_order(c, side, reason_tag, order) ==
    { LET p == place_limit_order(c, side, reason_tag, outcome)
      IN  IF ~p.result THEN [c |-> p.c, result |-> TRUE]
          ELSE [c |-> [p.c EXCEPT
                         !.s.sell_order_ = IF side = "SELL" THEN Some(order) ELSE @,
                         !.s.buy_order_ = IF side = "BUY" THEN Some(order) ELSE @,
                         !.placed = @ \cup {order.client_id}],
                result |-> FALSE] : outcome \in LimitOutcomes(c) }

\* MarketMakerStrategy::ensure_starting_inventory(book): the contexts it leaves
\* and what it returns.  With quote short it sells base (line 737) unless the
\* quantity is too small (line 742); with base short it buys (line 755) unless
\* the notional is too small (line 761).
ensure_starting_inventory(c, book) ==
    IF ~c.s.trading_enabled_ \/ book.microprice <= kEpsilon
    THEN {[c |-> c, result |-> FALSE]}
    ELSE CASE c.balances = "funded" -> {[c |-> c, result |-> TRUE]}
           [] c.balances = "no_quote" ->
                {[c |-> c, result |-> FALSE]} \cup boot_order(c, "SELL", "BOOT_SELL", OwnOrder(c.n, "SELL"))
           [] c.balances = "no_base" ->
                {[c |-> c, result |-> FALSE]} \cup boot_order(c, "BUY", "BOOT_BUY", OwnOrder(c.n, "BUY"))

\* run(), lines 363-367: the iteration ends when the inventory is not ready.
StartingInventory(c, book) ==
    IF c.pc = "end" THEN {c}
    ELSE { IF r.result THEN r.c
           ELSE [r.c EXCEPT !.s = note_request_success(r.c.s), !.pc = "end"] :
             r \in ensure_starting_inventory(c, book) }

\* quote_side with a slip: the order is tracked whatever place_limit_order
\* returns.
quote_side_unchecked(c, side, order) ==
    LET slot == IF side = "SELL" THEN c.s.sell_order_ ELSE c.s.buy_order_
        short == IF side = "SELL" THEN "no_base" ELSE "no_quote"
    IN  {c} \cup
        (IF slot # None \/ c.balances = short THEN {}
         ELSE { LET p == place_limit_order(c, side, side, outcome)
                IN  [p.c EXCEPT
                       !.s.sell_order_ = IF side = "SELL" THEN Some(order) ELSE @,
                       !.s.buy_order_ = IF side = "BUY" THEN Some(order) ELSE @,
                       !.placed = IF p.result THEN @ \cup {order.client_id} ELSE @] :
                  outcome \in LimitOutcomes(c) })

\* maintain_quotes, lines 838-850 and 854-869: one side's quote, placed when
\* the slot is empty, the balance allows it and the sizing comes out.
quote_side(c, side, order) ==
    LET slot == IF side = "SELL" THEN c.s.sell_order_ ELSE c.s.buy_order_
        short == IF side = "SELL" THEN "no_base" ELSE "no_quote"
    IN  {c} \cup
        (IF slot # None \/ c.balances = short THEN {}
         ELSE { LET p == place_limit_order(c, side, side, outcome)
                IN  IF ~p.result THEN p.c
                    ELSE [p.c EXCEPT
                            !.s.sell_order_ = IF side = "SELL" THEN Some(order) ELSE @,
                            !.s.buy_order_ = IF side = "BUY" THEN Some(order) ELSE @,
                            !.placed = @ \cup {order.client_id}] :
                  outcome \in LimitOutcomes(c) })

\* MarketMakerStrategy::maintain_quotes(book)
maintain_quotes(c, book) ==
    IF ~c.s.trading_enabled_ \/ book.microprice <= kEpsilon THEN {c}
    ELSE UNION { quote_side(a, "BUY", OwnOrder(c.n, "BUY")) :
                   a \in quote_side(c, "SELL", OwnOrder(c.n, "SELL")) }

\* run(), lines 369-371: the quotes, and the iteration ends well.
MaintainQuotes(c, book) ==
    IF c.pc = "end" THEN {c}
    ELSE { [q EXCEPT !.s = note_request_success(q.s), !.pc = "end"] :
             q \in maintain_quotes(c, book) }

\* run(), lines 329-380: the contexts one iteration can end in.
Iterate(c, book) ==
    LET account_info == ClientCall(c, "account_info")
        open_orders == UNION {ClientCall(a, "open_orders") : a \in account_info}
        refreshed == UNION {OpenOrders(a) : a \in open_orders}
        depth == UNION {ClientCall(a, "depth") : a \in refreshed}
        trades == UNION {pull_recent_trades(a) : a \in depth}
        escaped == UNION {enforce_escape_conditions(a, book) : a \in trades}
        risk == UNION {RiskCheck(a) : a \in escaped}
        inventory == UNION {StartingInventory(a, book) : a \in risk}
    IN  UNION {MaintainQuotes(a, book) : a \in inventory}

\* The strategy's configurations, with an escape threshold of 10 per cent:
\* the drawdown limits of main.cpp (8 USD, 15 per cent), a taker cooldown that
\* a timed-out wait covers and a risk cooldown that one refresh period
\* covers; and a drawdown limit of 8 per cent below the default 10 USD, with
\* the default cooldowns.
LoopConfigs ==
    { [DefaultConfig EXCEPT !.max_drawdown_pct = 15, !.max_drawdown_usd = 8,
                            !.escape_bps = 1000,
                            !.taker_escape_cooldown_ms = 2000,
                            !.risk_cooldown_ms = 1000],
      [DefaultConfig EXCEPT !.max_drawdown_pct = 8, !.escape_bps = 1000] }

\* The client ids of the orders the strategy tracks.
TrackedIds(s) ==
    {o[1].client_id : o \in {s.buy_order_, s.sell_order_} \ {None}}

\* One iteration of the loop of run(), the calls inside its steps answering
\* with one of `outcomes`.  `iteration` records what it did: whether an order
\* tracked when it began was missing from the exchange's list, the risk flag
\* when it began, the throttle calls made before it, the ids the exchange
\* listed, the orders sent and placed, the NAV and clock of the risk check,
\* whether cancel_all_quotes ran, and the requests sent while
\* rate_limited_until_ lay ahead.
run(outcomes, books, funds, iterations) ==
    /\ iteration.n < iterations
    /\ \E dt \in LoopSteps, book \in books, balances \in funds :
          LET loop_start == rate_limit_gate(strategy, now + dt)
              start == StartContext(iteration.n,
                                    [strategy EXCEPT !.rate_limited_this_loop_ = FALSE],
                                    loop_start, balances, outcomes)
          IN  \E c \in Iterate(start, book) :
                /\ strategy' = c.s
                /\ now' = c.t
                /\ hits' = hits + c.hits
                /\ escapes' = c.escapes
                /\ iteration' = [n |-> iteration.n + 1, loop_start |-> loop_start,
                                 closed |-> /\ c.response # None
                                            /\ ~(TrackedIds(strategy) \subseteq c.response[1]),
                                 was_enabled |-> strategy.trading_enabled_,
                                 calls |-> Len(escapes),
                                 response |-> c.response, sent |-> c.sent,
                                 placed |-> c.placed, nav |-> c.nav,
                                 risk_time |-> c.risk_time,
                                 cancel_issued |-> c.cancel_issued,
                                 limited |-> c.limited]
    /\ lastOp' = "run"
    /\ UNCHANGED <<file, ledgerVars, bookVars, feedVars, lockVars, config_>>

RunIteration == run(CallOutcomes, Books, Balances, MaxIterations)

InitLoop ==
    /\ file = <<>>
    /\ LedgerFresh /\ BookFresh /\ FeedFresh /\ LockFresh /\ StrategyFresh
    /\ lastOp = "none"
    /\ config_ \in LoopConfigs

NextLoop == RunIteration

SpecLoop == InitLoop /\ [][NextLoop]_vars

\* The loop under the drawdown limits of market_maker.hpp:33 (20 %) and
\* main.cpp:84 (8 USD) and a cooldown that has passed by the next iteration:
\* from a peak of 100 the half-drawdown line is 90, below the 92 at which the
\* USD limit is met.
RiskConfig ==
    [DefaultConfig EXCEPT !.max_drawdown_pct = 20, !.max_drawdown_usd = 8,
                          !.risk_cooldown_ms = 1000]

InitLoopRisk ==
    /\ file = <<>>
    /\ LedgerFresh /\ BookFresh /\ FeedFresh /\ LockFresh /\ StrategyFresh
    /\ lastOp = "none"
    /\ config_ = RiskConfig

\* Both assets are free in every iteration.
RunIterationRisk == run(CallOutcomes, Books, {"funded"}, MaxIterations)

NextLoopRisk == RunIterationRisk

SpecLoopRisk == InitLoopRisk /\ [][NextLoopRisk]_vars

\* The loop on an exchange that answers 429 to any call, with both sides
\* funded.
MaxFaultyIterations == 2

RunIterationFaulty == run(FaultyOutcomes, Books, {"funded"}, MaxFaultyIterations)

NextLoopFaults == RunIterationFaulty

SpecLoopFaults == InitLoop /\ [][NextLoopFaults]_vars

\* The loop on an exchange that may answer a limit order without a status
\* field.
MaxOrderIterations == 2

OrderOutcomes == {"ok", "no_status"}

RunIterationOrders == run(OrderOutcomes, Books, Balances, MaxOrderIterations)

NextLoopOrders == RunIterationOrders

SpecLoopOrders == InitLoop /\ [][NextLoopOrders]_vars

-----------------------------------------------------------------------------
(* MarketMakerStrategy::pull_recent_trades: the fill poll and the ledger.   *)
(* Amounts of a trade (qty, quoteQty, commission) are doubles in the code;  *)
(* the model counts them in halves of one ledger unit, so that              *)
(* llround(x * scale) is llround(n, 2) for the amount n.  position_base_,   *)
(* position_cost_ and realized_pnl_ (lines 995-997) are copies of the       *)
(* ledger's state and are not kept.                                         *)

\* Polls per behaviour that reach the exchange, and trades per response.
MaxPolls == 2
MaxTrades == 2

\* Halves in one ledger unit.
HalfUnits == 2

\* Time between two calls of pull_recent_trades.
FillPollSteps == {0, 2000}

BaseAsset == "SPY"

\* A trade of the myTrades response; id 0 for one without an id (line 907).
PlainTrades ==
    [id : {0} \cup TradeIds, isBuyer : BOOLEAN, qty : {2}, quoteQty : {6},
     commission : {0}, commissionAsset : {""}]

\* What account_trade_list answers: an array of trades, something that is no
\* array, HTTP 429, or another error.
TradeAnswers ==
    { [kind |-> k, trades |-> <<>>] : k \in {"not_array", "429", "error"} }
    \cup { [kind |-> "array", trades |-> t] :
             t \in UNION { [1..n -> PlainTrades] : n \in 0..MaxTrades } }

\* What the storage does to persist_fill (trade_ledger.cpp:174-178): the line
\* is written; the file cannot be opened and persist_fill throws; the file is
\* opened and the write is lost (the stream is not checked after the write).
DiskOutcomes == {"written", "not_opened", "lost"}

\* get_bool_optional(json, key, false), lines 133-150: a field that is absent
\* reads as false.
get_bool_optional(json, key) == IF key \in DOMAIN json THEN json[key] ELSE FALSE

\* pull_recent_trades, lines 927-966: the TradeFill built from a trade.
fold_trade(trade) ==
    LET in_base == trade.commissionAsset # "" /\ trade.commissionAsset = BaseAsset
        in_quote == /\ trade.commissionAsset # ""
                    /\ trade.commissionAsset # BaseAsset
                    /\ trade.commissionAsset = "USDT"
        effective_qty == IF in_base THEN Max(0, trade.qty - trade.commission) ELSE trade.qty
        effective_quote == IF in_quote THEN Max(0, trade.quoteQty - trade.commission)
                           ELSE trade.quoteQty
    IN  [id |-> trade.id,
         side |-> IF trade.isBuyer THEN Buy ELSE Sell,
         base_qty |-> llround(effective_qty, HalfUnits),
         quote_qty |-> llround(effective_quote, HalfUnits),
         fee_qty |-> IF in_base \/ in_quote THEN llround(trade.commission, HalfUnits) ELSE 0,
         fee_asset |-> trade.commissionAsset,
         is_maker |-> ~get_bool_optional(trade, "isMaker")]

\* The TradeLedger as a value.
Ledger == [entries |-> entries_, file |-> file, state |-> state_, threw |-> FALSE]

\* TradeLedger::append(fill) on the ledger L, the storage doing `disk`; of
\* the fill the ledger keeps the fields the accounting reads.  The fills of
\* the strategy carry no negative quantity (fold_trade), so that the
\* difference of the sell path stays in range.
ledger_append(L, fill, disk) ==
    LET kept == [id |-> fill.id, side |-> fill.side,
                 base_qty |-> fill.base_qty, quote_qty |-> fill.quote_qty]
        pushed == Append(L.entries, kept)
    IN  IF disk = "not_opened"
        THEN [L EXCEPT !.entries = pushed, !.threw = TRUE]
        ELSE LET r == append_account(L.state, kept)
             IN  [entries |-> pushed,
                  file |-> IF disk = "written" THEN Append(L.file, persist_fill(kept))
                           ELSE L.file,
                  state |-> r.state, threw |-> r.threw]

\* pull_recent_trades, lines 927-992: the loop over the sorted new trades; an
\* exception of append ends it.  Yields the ledger and how many calls of
\* append were made.
RECURSIVE append_fills(_, _, _, _)
append_fills(L, trades, i, disk) ==
    IF i > Len(trades) THEN [ledger |-> L, calls |-> i - 1]
    ELSE LET after == ledger_append(L, fold_trade(trades[i]), disk[i])
         IN  IF after.threw THEN [ledger |-> after, calls |-> i]
             ELSE append_fills(after, trades, i + 1, disk)

\* pull_recent_trades, lines 890: the cursor.
trade_cursor == Max(strategy.last_trade_id_, state_.last_trade_id)

\* new_trades with a slip: a trade at the cursor passes (id < cursor for
\* id <= cursor).
new_trades_inclusive(trades, cursor) ==
    SelectSeq(trades, LAMBDA trade : ~(trade.id < cursor))

\* pull_recent_trades, lines 903-913: the trades beyond the cursor.
new_trades(trades, cursor) ==
    SelectSeq(trades, LAMBDA trade : ~(trade.id <= cursor))

\* MarketMakerStrategy::pull_recent_trades(book), called at clock reading t.
\* `iteration` records the poll: the cursor it used, how many trades the
\* response held, the trades it handed to append in that order, how many of
\* these calls returned, the TradeFill built for each, and what the storage
\* did.
pull_recent_trades_at(t, answer, disk) ==
    LET cursor == trade_cursor
        polled == [strategy EXCEPT !.last_trades_poll_time_ = t]
        record(appended, returned) ==
            [n |-> iteration.n + 1, cursor |-> cursor, offered |-> Len(answer.trades),
             appended |-> appended, returned |-> returned,
             fills |-> [i \in 1..Len(appended) |-> fold_trade(appended[i])],
             disk |-> SubSeq(disk, 1, Len(appended))]
    IN  /\ now' = t
        /\ lastOp' = "pull_recent_trades"
        /\ IF /\ strategy.last_trades_poll_time_ # 0
              /\ t - strategy.last_trades_poll_time_ < config_.fill_poll_interval_ms
           THEN \* line 884
                UNCHANGED <<file, ledgerVars, strategy, hits, iteration>>
           ELSE /\ iteration.n < MaxPolls
                /\ CASE answer.kind = "429" ->
                           /\ strategy' = note_rate_limit_hit(polled, t)
                           /\ hits' = hits + 1
                           /\ iteration' = record(<<>>, 0)
                           /\ UNCHANGED <<file, ledgerVars>>
                     [] answer.kind = "error" ->
                           /\ strategy' = polled
                           /\ iteration' = record(<<>>, 0)
                           /\ UNCHANGED <<file, ledgerVars, hits>>
                     [] answer.kind = "not_array" ->
                           /\ strategy' = note_request_success(polled)
                           /\ iteration' = record(<<>>, 0)
                           /\ UNCHANGED <<file, ledgerVars, hits>>
                     [] answer.kind = "array" ->
                           LET fresh == new_trades(answer.trades, cursor)
                               ok == note_request_success(polled)
                           IN  IF fresh = <<>>
                               THEN \* lines 915-919, max_id = cursor
                                    /\ strategy' = [ok EXCEPT !.last_trade_id_ = cursor]
                                    /\ iteration' = record(<<>>, 0)
                                    /\ UNCHANGED <<file, ledgerVars, hits>>
                               ELSE \E sorted \in SortedById(fresh) :
                                      LET r == append_fills(Ledger, sorted, 1, disk)
                                          L == r.ledger
                                      IN  /\ entries_' = L.entries
                                          /\ file' = L.file
                                          /\ state_' = L.state
                                          /\ threw' = L.threw
                                          /\ everThrew' = (everThrew \/ L.threw)
                                          /\ strategy' =
                                               IF L.threw THEN ok
                                               ELSE [ok EXCEPT !.last_trade_id_ = L.state.last_trade_id]
                                          /\ iteration' =
                                               record(SubSeq(sorted, 1, r.calls),
                                                      IF L.threw THEN r.calls - 1 ELSE r.calls)
                                          /\ UNCHANGED <<loaded, hits>>
        /\ UNCHANGED <<bookVars, feedVars, lockVars, config_, escapes>>

PullRecentTrades ==
    \E dt \in FillPollSteps, answer \in TradeAnswers, disk \in [1..MaxTrades -> DiskOutcomes] :
        pull_recent_trades_at(now + dt, answer, disk)

InitFills ==
    /\ file = <<>>
    /\ LedgerFresh /\ BookFresh /\ FeedFresh /\ LockFresh /\ StrategyFresh
    /\ lastOp = "none"
    /\ config_ = DefaultConfig

NextFills == PullRecentTrades

SpecFills == InitFills /\ [][NextFills]_vars

\* The fill poll on responses of one trade that carries a commission: none,
\* half a unit, more than a unit, more than the trade; charged in no asset,
\* the base asset, USDT, or a third asset.
FeeTrades ==
    [id : {1, 2}, isBuyer : BOOLEAN, qty : {4}, quoteQty : {6},
     commission : {0, 1, 3, 9}, commissionAsset : {"", BaseAsset, "USDT", "MX"}]

PullTradeWithFee ==
    \E trade \in FeeTrades :
        pull_recent_trades_at(now + config_.fill_poll_interval_ms,
                              [kind |-> "array", trades |-> <<trade>>],
                              [i \in 1..MaxTrades |-> "written"])

NextFees == PullTradeWithFee

SpecFees == InitFills /\ [][NextFees]_vars

\* The fill poll on responses of one trade that tells whether the strategy's
\* order was the maker.
MakerTrades ==
    [id : {1, 2}, isBuyer : BOOLEAN, isMaker : BOOLEAN, qty : {2, 4}, quoteQty : {4, 6},
     commission : {0}, commissionAsset : {""}]

PullMakerTrade ==
    \E trade \in MakerTrades :
        pull_recent_trades_at(now + config_.fill_poll_interval_ms,
                              [kind |-> "array", trades |-> <<trade>>],
                              [i \in 1..MaxTrades |-> "written"])

NextMaker == PullMakerTrade

SpecMaker == InitFills /\ [][NextMaker]_vars

\* The fill poll on trades large enough for the ledger's sums to leave the
\* int64_t range (qty 128 halves is 64 units, two of them exceed INT64_MAX),
\* each response listing a trade id once and the storage taking every write.
LargeTrades ==
    [id : TradeIds, isBuyer : BOOLEAN, qty : {2, 2 ^ (Int64Bits - 1)}, quoteQty : {6},
     commission : {0}, commissionAsset : {""}]

LargeAnswers ==
    { [kind |-> "array", trades |-> t] :
        t \in { u \in UNION { [1..n -> LargeTrades] : n \in 0..MaxTrades } :
                  \A i, j \in 1..Len(u) : u[i].id = u[j].id => i = j } }

PullLargeTrades ==
    \E dt \in FillPollSteps, answer \in LargeAnswers :
        pull_recent_trades_at(now + dt, answer, [i \in 1..MaxTrades |-> "written"])

NextFillsLarge == PullLargeTrades

SpecFillsLarge == InitFills /\ [][NextFillsLarge]_vars

-----------------------------------------------------------------------------
(* MarketMakerStrategy::place_limit_order, the checks before the request    *)
(* (lines 1015-1035), on a strategy constructed with the symbol's filters.  *)
(* Prices and quantities are doubles in the code; the model counts them in  *)
(* tenths and a notional (quantity * price, min_quote_order, min_notional)  *)
(* in hundredths.  kEpsilon and the 1e-6 of within_increment are tolerances *)
(* below one tenth.                                                         *)

\* Calls of place_limit_order in one behaviour.
MaxPlacements == 2

TenthsPerUnit == 10

\* struct SymbolFilters as load_symbol_filters may fill it: each filter of
\* exchangeInfo present or not, a value of 0 being what the struct holds for
\* a filter that is absent or that the exchange has switched off.
SymbolFilters ==
    [min_price : {0, 2}, tick_size : {0, 2}, min_qty : {0, 3}, step_size : {0, 2},
     min_notional : {0, 9}]

\* The configuration the strategy is constructed with.
FilterConfig ==
    [min_quote_order |-> 4, min_base_quantity |-> 2, quantity_increment |-> 1,
     quantity_precision |-> 1, price_precision |-> 1]

\* precision_from_step(step): the decimals of a step.
precision_from_step(step) ==
    IF step <= 0 THEN 0 ELSE IF step % TenthsPerUnit = 0 THEN 0 ELSE 1

\* load_symbol_filters, lines 293-309: what loading the filters makes of the
\* configuration.
load_symbol_filters(config, filters) ==
    [config EXCEPT
       !.quantity_increment =
           IF filters.step_size > 0 /\ filters.step_size # @ THEN filters.step_size ELSE @,
       !.quantity_precision =
           IF filters.step_size > 0 THEN Max(@, precision_from_step(filters.step_size)) ELSE @,
       !.price_precision =
           IF filters.tick_size > 0 THEN Max(@, precision_from_step(filters.tick_size)) ELSE @]

\* floor_to_increment(value, increment)
floor_to_increment(value, increment) ==
    IF increment <= kEpsilon \/ value <= 0 THEN Max(0, value)
    ELSE (value \div increment) * increment

\* within_increment(value, increment)
within_increment(value, increment) ==
    IF increment <= kEpsilon THEN TRUE ELSE value % increment = 0

\* format_decimal(value, precision), read back as a number: std::fixed rounds
\* to `precision` decimals, a tie going to the even digit.
format_decimal(value, precision) ==
    IF precision >= 1 THEN value
    ELSE LET q == value \div TenthsPerUnit
             r == value % TenthsPerUnit
         IN  IF 2 * r < TenthsPerUnit THEN q * TenthsPerUnit
             ELSE IF 2 * r > TenthsPerUnit THEN (q + 1) * TenthsPerUnit
             ELSE IF q % 2 = 0 THEN q * TenthsPerUnit ELSE (q + 1) * TenthsPerUnit

\* MarketMakerStrategy::validate_filters(price, quantity, notional)
validate_filters(filters, price, quantity, notional) ==
    IF filters = None THEN TRUE
    ELSE LET f == filters[1]
         IN  /\ (price > 0 /\ f.tick_size > 0) =>
                   (/\ ~(f.min_price > 0 /\ price + kEpsilon < f.min_price)
                    /\ within_increment(price, f.tick_size))
             /\ (quantity > 0 /\ f.step_size > 0) =>
                   (/\ ~(f.min_qty > 0 /\ quantity + kEpsilon < f.min_qty)
                    /\ within_increment(quantity, f.step_size))
             /\ ~(/\ notional > 0 /\ f.min_notional > 0
                  /\ notional + kEpsilon < f.min_notional)

\* place_limit_order, lines 1015-1035: the request of new_order, or None when
\* the order fails a check and is not sent.
limit_order_request(s, config, side, price, quantity) ==
    IF price <= 0 \/ quantity <= 0 THEN None
    ELSE LET floored == floor_to_increment(quantity, config.quantity_increment)
             notional == floored * price
         IN  IF \/ floored < config.min_base_quantity
                \/ notional < config.min_quote_order
             THEN None
             ELSE IF ~validate_filters(s.symbol_filters_, price, floored, notional) THEN None
             ELSE Some([side |-> side,
                        quantity |-> format_decimal(floored, config.quantity_precision),
                        price |-> format_decimal(price, config.price_precision)])

\* A call of place_limit_order(side, price, quantity, id); iteration records
\* the request it made of new_order.
PlaceLimitOrder ==
    /\ iteration.n < MaxPlacements
    /\ \E side \in {"SELL", "BUY"}, price \in 0..4, quantity \in 0..4 :
          iteration' = [n |-> iteration.n + 1,
                        request |-> limit_order_request(strategy, config_, side, price, quantity)]
    /\ lastOp' = "place_limit_order"
    /\ UNCHANGED <<file, ledgerVars, bookVars, feedVars, lockVars, config_, strategy, now,
                   hits, escapes>>

\* The strategy after its constructor: load_symbol_filters found no filters
\* (symbol_filters_ empty) or loaded them.
InitFilters ==
    /\ file = <<>>
    /\ LedgerFresh /\ BookFresh /\ FeedFresh /\ LockFresh
    /\ now = StartTime /\ hits = 0 /\ escapes = <<>> /\ iteration = [n |-> 0]
    /\ lastOp = "none"
    /\ \/ /\ strategy = FreshStrategy @@ [symbol_filters_ |-> None]
          /\ config_ = FilterConfig
       \/ \E filters \in SymbolFilters :
             /\ strategy = FreshStrategy @@ [symbol_filters_ |-> Some(filters)]
             /\ config_ = load_symbol_filters(FilterConfig, filters)

NextFilters == PlaceLimitOrder

SpecFilters == InitFilters /\ [][NextFilters]_vars

-----------------------------------------------------------------------------
(* mexc::ClientBase (client_base.cpp): the timings of the last request.     *)
(* One thread issues requests (the strategy loop), another calls            *)
(* last_request_timings().  A RequestTimings is copied one double after the *)
(* other; the copy of the struct is not atomic.                             *)

\* Requests per behaviour of SpecClient.
MaxRequests == 2

\* public_request / signed_request, lines 52-70 and 78-93: the request is
\* made, outside the lock; response.timings are those of this request.
ClientRequest ==
    /\ client.issuer.pc = "idle"
    /\ client.requests < MaxRequests
    /\ client' = [client EXCEPT
                    !.requests = @ + 1,
                    !.issuer = [pc |-> "lock",
                                response |-> request_timings(client.requests + 1),
                                field |-> 1]]
    /\ UNCHANGED <<file, ledgerVars, strategyVars, bookVars, feedVars, mutex_, writer,
                   reader, seen, notify, lastOp>>

\* std::lock_guard<std::mutex> lock(request_mutex_), lines 73 and 95.
ClientLock ==
    /\ client.issuer.pc = "lock"
    /\ ~client.request_mutex_
    /\ client' = [client EXCEPT !.request_mutex_ = TRUE, !.issuer.pc = "write"]
    /\ UNCHANGED <<file, ledgerVars, strategyVars, bookVars, feedVars, mutex_, writer,
                   reader, seen, notify, lastOp>>

\* last_timings_ = response.timings (lines 74, 96), one field; after the
\* last field the guard goes out of scope and the request returns.
ClientWrite ==
    /\ client.issuer.pc = "write"
    /\ LET f == client.issuer.field
           last == f = TimingFields
       IN client' = [client EXCEPT
                       !.last_timings_[f] = client.issuer.response[f],
                       !.request_mutex_ = ~last,
                       !.issuer.field = IF last THEN 1 ELSE f + 1,
                       !.issuer.pc = IF last THEN "idle" ELSE "write",
                       !.observer.raced = @ \/ client.observer.pc = "read"]
    /\ UNCHANGED <<file, ledgerVars, strategyVars, bookVars, feedVars, mutex_, writer,
                   reader, seen, notify, lastOp>>

\* The observer calls last_request_timings() (line 48).
ObserverCall ==
    /\ client.observer.pc \in {"idle", "done"}
    /\ client' = [client EXCEPT
                    !.observer = [pc |-> "read", result |-> request_timings(0),
                                  field |-> 1, raced |-> client.issuer.pc = "write"]]
    /\ UNCHANGED <<file, ledgerVars, strategyVars, bookVars, feedVars, mutex_, writer,
                   reader, seen, notify, lastOp>>

\* return last_timings_ (line 49): one field of the copy.  No lock is taken:
\* the read goes on whether or not request_mutex_ is held.
last_request_timings ==
    /\ client.observer.pc = "read"
    /\ LET f == client.observer.field
           last == f = TimingFields
       IN client' = [client EXCEPT
                       !.observer.result[f] = client.last_timings_[f],
                       !.observer.field = IF last THEN 1 ELSE f + 1,
                       !.observer.pc = IF last THEN "done" ELSE "read"]
    /\ UNCHANGED <<file, ledgerVars, strategyVars, bookVars, feedVars, mutex_, writer,
                   reader, seen, notify, lastOp>>

InitClient ==
    /\ file = <<>>
    /\ Fresh

NextClient ==
    \/ ClientRequest
    \/ ClientLock
    \/ ClientWrite
    \/ ObserverCall
    \/ last_request_timings

SpecClient == InitClient /\ [][NextClient]_vars

-----------------------------------------------------------------------------
(* OrderBookManager: the update callback (orderbook_manager.cpp:463-476,    *)
(* 550-553).  The feed thread handles depth messages; at the end of each it *)
(* copies update_callback_ under callback_mutex_ and calls the copy with the *)
(* mutex released.  Another thread (the GUI's main thread) calls            *)
(* set_update_callback.                                                     *)

\* Depth messages handled per behaviour of SpecNotify.
MaxMessages == 3

\* set_update_callback with a slip: an empty callback is not stored.
store_callback_nonempty(registered, callback) ==
    IF callback = NoCallback THEN registered ELSE callback

\* line 552: update_callback_ = std::move(callback).
store_callback(registered, callback) == callback

\* handle_depth_message has applied a message and reaches line 463.
FeedMessage ==
    /\ notify.feed.pc = "idle"
    /\ notify.messages < MaxMessages
    /\ notify' = [notify EXCEPT !.messages = @ + 1, !.feed.pc = "lock"]
    /\ UNCHANGED <<file, ledgerVars, strategyVars, bookVars, feedVars, mutex_, writer,
                   reader, seen, client, lastOp>>

\* line 466: std::lock_guard<std::mutex> lock(callback_mutex_).
FeedLock ==
    /\ notify.feed.pc = "lock"
    /\ notify.callback_mutex_ = "free"
    /\ notify' = [notify EXCEPT !.callback_mutex_ = "feed", !.feed.pc = "copy"]
    /\ UNCHANGED <<file, ledgerVars, strategyVars, bookVars, feedVars, mutex_, writer,
                   reader, seen, client, lastOp>>

\* lines 467-468: callback_copy = update_callback_, and the guard's scope ends.
FeedCopy ==
    /\ notify.feed.pc = "copy"
    /\ notify' = [notify EXCEPT
                    !.callback_mutex_ = "free",
                    !.feed = [pc |-> "call", callback_copy |-> notify.update_callback_],
                    !.stale = @ \/ notify.update_callback_ \in notify.retired]
    /\ UNCHANGED <<file, ledgerVars, strategyVars, bookVars, feedVars, mutex_, writer,
                   reader, seen, client, lastOp>>

\* lines 469-476: the copy is called when it is not empty; the handler returns.
FeedCall ==
    /\ notify.feed.pc = "call"
    /\ LET c == notify.feed.callback_copy
       IN  notify' = [notify EXCEPT
                        !.feed = [pc |-> "idle", callback_copy |-> NoCallback],
                        !.late = IF c # NoCallback /\ c \in notify.retired
                                 THEN [@ EXCEPT ![c] = @ + 1]
                                 ELSE @]
    /\ UNCHANGED <<file, ledgerVars, strategyVars, bookVars, feedVars, mutex_, writer,
                   reader, seen, client, lastOp>>

\* A thread calls set_update_callback(callback): nullptr or a new callback.
SetterCall ==
    /\ notify.setter.pc = "idle"
    /\ notify.sets < MaxCallbacks
    /\ \E callback \in {NoCallback, notify.sets + 2} :
          notify' = [notify EXCEPT !.setter = [pc |-> "lock", callback |-> callback]]
    /\ UNCHANGED <<file, ledgerVars, strategyVars, bookVars, feedVars, mutex_, writer,
                   reader, seen, client, lastOp>>

\* line 551: std::lock_guard<std::mutex> lock(callback_mutex_).
SetterLock ==
    /\ notify.setter.pc = "lock"
    /\ notify.callback_mutex_ = "free"
    /\ notify' = [notify EXCEPT !.callback_mutex_ = "setter", !.setter.pc = "store"]
    /\ UNCHANGED <<file, ledgerVars, strategyVars, bookVars, feedVars, mutex_, writer,
                   reader, seen, client, lastOp>>

\* lines 552-553: the callback is stored and set_update_callback returns; the
\* callback registered before is the one the caller has taken out.
set_update_callback ==
    /\ notify.setter.pc = "store"
    /\ LET previous == notify.update_callback_
           callback == notify.setter.callback
       IN  notify' = [notify EXCEPT
                        !.update_callback_ = store_callback(previous, callback),
                        !.callback_mutex_ = "free",
                        !.setter = [pc |-> "idle", callback |-> NoCallback],
                        !.sets = @ + 1,
                        !.retired = @ \cup ({previous} \ {NoCallback, callback})]
    /\ UNCHANGED <<file, ledgerVars, strategyVars, bookVars, feedVars, mutex_, writer,
                   reader, seen, client, lastOp>>

InitNotify ==
    /\ file = <<>>
    /\ Fresh

NextNotify ==
    \/ FeedMessage
    \/ FeedLock
    \/ FeedCopy
    \/ FeedCall
    \/ SetterCall
    \/ SetterLock
    \/ set_update_callback

SpecNotify == InitNotify /\ [][NextNotify]_vars


-----------------------------------------------------------------------------
(* Properties of the trade ledger                                          *)

RECURSIVE SumBase(_, _)
SumBase(seq, side) ==
    IF seq = <<>> THEN 0
    ELSE (IF Head(seq).side = side THEN Head(seq).base_qty ELSE 0) + SumBase(Tail(seq), side)

\* After every prefix of the fills, no more base was sold than bought.
NeverOversold(seq) ==
    \A k \in 1..Len(seq) :
        SumBase(SubSeq(seq, 1, k), Sell) <= SumBase(SubSeq(seq, 1, k), Buy)

\* C1, as stated: on a ledger that started empty and was only appended to, if
\* the total base sold does not exceed the total base bought, position_base
\* is the total bought minus the total sold.
C1_Original ==
    (~loaded /\ ~everThrew /\ SumBase(entries_, Sell) <= SumBase(entries_, Buy))
        => state_.position_base = SumBase(entries_, Buy) - SumBase(entries_, Sell)

\* C1, amended: on a ledger that started empty and was only appended to, if
\* after every prefix of the fills the base sold so far does not exceed the
\* base bought so far (no sell exceeds the position it meets), position_base
\* is the total bought minus the total sold.
C1_Amended ==
    (~loaded /\ ~everThrew /\ NeverOversold(entries_))
        => state_.position_base = SumBase(entries_, Buy) - SumBase(entries_, Sell)

\* A buy of 2 and a sell of 1 appended: base 1 is left.
C1_Witness ==
    /\ ~loaded /\ ~everThrew /\ lastOp = "append"
    /\ Len(entries_) = 2
    /\ NeverOversold(entries_)
    /\ entries_[1].side = Buy /\ entries_[1].base_qty = 2
    /\ entries_[2].side = Sell /\ entries_[2].base_qty = 1
    /\ state_.position_base = 1

\* No two fills carry the same trade id.
DistinctIds(seq) ==
    \A i, j \in 1..Len(seq) : i # j => seq[i].id # seq[j].id

\* C2, for fills of pairwise distinct ids: load() on the file a ledger wrote
\* by appends alone returns the state the appends left (position_base,
\* position_cost, realized_pnl and last_trade_id all equal).
C2_RoundTrip ==
    [][(lastOp' = "load" /\ ~loaded /\ ~everThrew' /\ DistinctIds(entries_))
          => state_' = state_]_vars

RECURSIVE AppendAll(_, _, _)
AppendAll(s, fills, i) ==
    IF i > Len(fills) THEN s
    ELSE AppendAll(append_account(s, fills[i]).state, fills, i + 1)

Abs(x) == IF x < 0 THEN -x ELSE x

Within1(a, b) ==
    /\ a.position_base = b.position_base
    /\ a.last_trade_id = b.last_trade_id
    /\ Abs(a.position_cost - b.position_cost) <= 1
    /\ Abs(a.realized_pnl - b.realized_pnl) <= 1

\* C3, for fills of pairwise distinct ids: after load() of a file holding a
\* prefix and appends of the suffix, the state is, up to one quote unit, the
\* state a clean ledger reaches by appending every fill in the same order.
C3_LoadThenAppend ==
    (loaded /\ lastOp = "append" /\ ~everThrew /\ DistinctIds(entries_))
        => Within1(state_, AppendAll(ZeroState, entries_, 1))

IsRecord(l) == l \in FillLines
IsJson(l) == l.kind = "json"

\* The states load() may return on a file of these lines.
LoadStates(lines) ==
    { rebuild_from_entries(s).state : s \in SortedById(load_lines(lines, 1)) }

RECURSIVE MaxId(_)
MaxId(seq) == IF seq = <<>> THEN 0 ELSE Max(Head(seq).id, MaxId(Tail(seq)))

\* C6: after every append and load that returns, last_trade_id is the
\* greatest id among the fills loaded or appended so far, and no append or
\* load lowers it.
C6_LastTradeIdIsMax ==
    [][(~everThrew')
          => /\ state_'.last_trade_id = MaxId(entries_')
             /\ state_'.last_trade_id >= state_.last_trade_id]_vars

\* A fill appended whose id is lower than one appended before.
C6_Witness ==
    /\ lastOp = "append"
    /\ Len(entries_) = 2
    /\ entries_[1].id = 2
    /\ entries_[2].id = 1
    /\ state_.last_trade_id = 2

\* An append of a SELL of q against a position p >= q that returned.
C7_SellWithinPosition ==
    /\ lastOp' = "append"
    /\ ~threw'
    /\ Len(entries_') = Len(entries_) + 1
    /\ entries_'[Len(entries_')].side = Sell
    /\ state_.position_base >= entries_'[Len(entries_')].base_qty

\* round(c / p * q), halves away from zero.
C7_CostOfSale ==
    LET q == entries_'[Len(entries_')].base_qty
        p == state_.position_base
        c == state_.position_cost
    IN  (2 * c * q + p) \div (2 * p)

\* C7, as stated: such an append lowers position_base by q and position_cost
\* by round(c/p*q), and adds quote_qty - round(c/p*q) to realized_pnl.
C7_Original ==
    [][C7_SellWithinPosition
          => /\ state_'.position_base = state_.position_base - entries_'[Len(entries_')].base_qty
             /\ state_'.position_cost = state_.position_cost - C7_CostOfSale
             /\ state_'.realized_pnl =
                  state_.realized_pnl + entries_'[Len(entries_')].quote_qty - C7_CostOfSale]_vars

\* C7, amended: such an append lowers position_base by q and position_cost by
\* round(c/p*q), and sets realized_pnl to its old value plus
\* quote_qty - round(c/p*q), clamped to +-kQuoteCapacityLimit.
C7_Amended ==
    [][C7_SellWithinPosition
          => /\ state_'.position_base = state_.position_base - entries_'[Len(entries_')].base_qty
             /\ state_'.position_cost = state_.position_cost - C7_CostOfSale
             /\ state_'.realized_pnl =
                  clamp(state_.realized_pnl + entries_'[Len(entries_')].quote_qty - C7_CostOfSale,
                        -kQuoteCapacityLimit, kQuoteCapacityLimit)]_vars

\* Buy 2 for 3, then sell 1 for 3: cost of sale round(1.5) = 2, profit 1.
C7_Witness ==
    /\ lastOp = "append" /\ ~loaded
    /\ Len(entries_) = 2
    /\ entries_[1] = [id |-> 1, side |-> Buy, base_qty |-> 2, quote_qty |-> 3]
    /\ entries_[2] = [id |-> 2, side |-> Sell, base_qty |-> 1, quote_qty |-> 3]
    /\ state_ = [position_base |-> 1, position_cost |-> 1, realized_pnl |-> 1, last_trade_id |-> 2]

-----------------------------------------------------------------------------
(* Properties of the order book                                            *)

\* C8, for the depth messages that carry their update id in toVersion: no
\* such message lowers the order book's last_update_id; one whose id is below
\* the stored one is rejected (returns false) and leaves the book as it was.
C8_LastUpdateIdMonotonic ==
    [][(lastOp' = "handle_depth_message" /\ message'.from # <<>> /\ message'.to # <<>>)
          => /\ last_update_id_' >= last_update_id_
             /\ message'.to[1] < last_update_id_
                  => (~ret' /\ bids_' = bids_ /\ asks_' = asks_)]_vars

\* C9: is_valid() is true exactly when both sides hold a level and every bid
\* price is below every ask price (best_bid < best_ask); a one-sided, a locked
\* and a crossed book are reported invalid.
C9_IsValid ==
    /\ is_valid <=> (/\ DOMAIN bids_ # {}
                     /\ DOMAIN asks_ # {}
                     /\ \A b \in DOMAIN bids_ : \A a \in DOMAIN asks_ : b < a)
    /\ is_valid <=> (DOMAIN bids_ # {} /\ DOMAIN asks_ # {} /\ best_bid < best_ask)

\* A locked book of two bid levels: the best bid is the best ask.
C9_Witness ==
    /\ Cardinality(DOMAIN bids_) = 2
    /\ DOMAIN asks_ # {}
    /\ best_bid = best_ask
    /\ ~is_valid

\* best_bid <= microprice(N) <= best_ask, on the exact fraction.
MicropriceInSpread(depth_levels) ==
    LET m == compute_microprice(depth_levels)
    IN  best_bid * m[2] <= m[1] /\ m[1] <= best_ask * m[2]

\* C10, as stated: whenever both sides hold a level, microprice(N) lies in
\* [best_bid, best_ask] for every depth N >= 0.
C10_Original ==
    (DOMAIN bids_ # {} /\ DOMAIN asks_ # {})
        => \A n \in 0..MaxDepth : MicropriceInSpread(n)

\* C10, amended: whenever both sides hold a level and the book is not crossed
\* (best_bid <= best_ask), microprice(N) lies in [best_bid, best_ask] for
\* every depth N >= 0.
C10_Amended ==
    (DOMAIN bids_ # {} /\ DOMAIN asks_ # {} /\ best_bid <= best_ask)
        => \A n \in 0..MaxDepth : MicropriceInSpread(n)

\* A valid book with two bid levels whose microprice is strictly inside the
\* spread at depth 2 and differs from the one at depth 1.
C10_Witness ==
    /\ is_valid
    /\ Cardinality(DOMAIN bids_) = 2
    /\ LET m == compute_microprice(2)
       IN  best_bid * m[2] < m[1] /\ m[1] < best_ask * m[2]
    /\ compute_microprice(1)[1] * compute_microprice(2)[2]
         # compute_microprice(2)[1] * compute_microprice(1)[2]

\* C11: whatever a getter of the OrderBook returns to a reader, it is what that
\* getter yields on one single book that stood between two writer calls while
\* the getter ran; no result mixes the book before an update with the book
\* after it.
C11_ReadersSeeOneBook ==
    \A r \in Readers : reader[r].pc = "done" => reader[r].result \in seen[r]

\* The same for the getters that take the lock once (all but spread()).
SingleLockGetters ==
    \A r \in Readers :
        (reader[r].pc = "done" /\ reader[r].op # "spread") => reader[r].result \in seen[r]

-----------------------------------------------------------------------------
(* Properties of the escape throttle                                        *)

\* The escapes the throttle allowed at a time in [from, from + 60 s).
AllowedInWindow(from) ==
    { i \in 1..Len(escapes) :
        /\ escapes[i].allowed
        /\ escapes[i].time >= from
        /\ escapes[i].time < from + kEscapeWindowSeconds * 1000 }

\* C13: when max_taker_escapes_per_min is positive, no 60-second window,
\* wherever it starts, holds more than max_taker_escapes_per_min escapes that
\* throttle_taker_escape allowed.
C13_SlidingWindow ==
    config_.max_taker_escapes_per_min > 0
        => \A i \in 1..Len(escapes) :
              Cardinality(AllowedInWindow(escapes[i].time)) <= config_.max_taker_escapes_per_min

-----------------------------------------------------------------------------
(* Properties of the rate-limit governor, for configurations with           *)
(* 0 < rate_limit_backoff_ms_initial <= rate_limit_backoff_ms_max.          *)

BackoffClears ==
    (strategy.current_backoff_ms_[1] > 0)
        ~> (strategy.current_backoff_ms_[1] = 0 /\ strategy.rate_limited_until_ = 0)

\* C19, as stated: a success in an iteration that has not hit the limit
\* replaces the backoff by max(0, 0.5 * backoff - 0.25 * initial), a success
\* in an iteration that has hit it changes nothing, and the backoff is in the
\* end 0 with rate_limited_until cleared.
C19_Original ==
    /\ [][(lastOp' = "note_request_success") =>
            LET b == strategy.current_backoff_ms_
                c == strategy'.current_backoff_ms_
                x == 2 * b[1] - config_.rate_limit_backoff_ms_initial * b[2]
            IN  IF strategy.rate_limited_this_loop_ \/ b[1] = 0
                THEN strategy' = strategy
                ELSE IF x <= 0 THEN c = <<0, 1>>
                     ELSE c[1] * 4 * b[2] = x * c[2]]_vars
    /\ BackoffClears

\* C19, amended: the success replaces the backoff by
\* max(0, 0.5 * backoff - 0.25 * initial) when that is at least initial / 2,
\* and otherwise by 0, clearing rate_limited_until with it.
C19_Amended ==
    /\ [][(lastOp' = "note_request_success") =>
            LET b == strategy.current_backoff_ms_
                c == strategy'.current_backoff_ms_
                x == 2 * b[1] - config_.rate_limit_backoff_ms_initial * b[2]
            IN  IF strategy.rate_limited_this_loop_ \/ b[1] = 0
                THEN strategy' = strategy
                ELSE IF x <= 0 \/ 2 * x < config_.rate_limit_backoff_ms_initial * 4 * b[2]
                     THEN /\ c = <<0, 1>>
                          /\ strategy'.rate_limited_until_ = 0
                     ELSE /\ c[1] * 4 * b[2] = x * c[2]
                          /\ strategy'.rate_limited_until_ = strategy.rate_limited_until_]_vars
    /\ BackoffClears

\* After hits, successes have decayed the backoff to 0 and cleared the deadline.
C19_Witness ==
    /\ lastOp = "note_request_success"
    /\ hits >= 2
    /\ ~strategy.rate_limited_this_loop_
    /\ strategy.current_backoff_ms_ = <<0, 1>>
    /\ strategy.rate_limited_until_ = 0

-----------------------------------------------------------------------------
(* Properties of the strategy loop                                          *)

\* C12: while the drawdown breaker keeps trading disabled (the iteration
\* begins with trading_enabled_ false and does not re-enable it), the
\* iteration sends no order, LIMIT or MARKET.
C12_NoOrderWhileDisabled ==
    [][(~strategy.trading_enabled_ /\ ~strategy'.trading_enabled_)
         => iteration'.sent = {}]_vars

\* Any two escapes the throttle allowed are at least taker_escape_cooldown_ms
\* apart.
EscapesSeparated ==
    \A i, j \in 1..Len(escapes) :
        (i < j /\ escapes[i].allowed /\ escapes[j].allowed)
          => escapes[j].time - escapes[i].time >= config_.taker_escape_cooldown_ms

\* The last iteration sent the market order of a SELL escape and that of a
\* BUY escape.
BothEscapesSent ==
    /\ iteration.n > 0
    /\ {"escape_sell", "escape_buy"} \subseteq {o.tag : o \in iteration.sent}

\* C14 as claimed: allowed escapes are a cooldown apart, and with a positive
\* cooldown no iteration sends the market orders of both a SELL and a BUY
\* escape.
C14_Original ==
    /\ EscapesSeparated
    /\ config_.taker_escape_cooldown_ms > 0 => ~BothEscapesSent

\* C14: allowed escapes are a cooldown apart, and an iteration sends the
\* market orders of both a SELL and a BUY escape only when its two throttle
\* calls were both allowed and at least the cooldown apart.
C14_Amended ==
    /\ EscapesSeparated
    /\ BothEscapesSent =>
         \E i, j \in (iteration.calls + 1)..Len(escapes) :
             /\ i < j /\ escapes[i].allowed /\ escapes[j].allowed
             /\ escapes[j].time - escapes[i].time >= config_.taker_escape_cooldown_ms

C14_Witness ==
    config_.taker_escape_cooldown_ms > 0 /\ BothEscapesSent

\* C15: an iteration that fetches the open orders ends with no order tracked
\* that it began with and the exchange did not list, and with buy_order_ and
\* sell_order_ naming only orders the exchange listed or the iteration placed.
C15_TrackedOrders ==
    [][iteration'.response # None =>
         /\ \A id \in TrackedIds(strategy) \ iteration'.response[1] :
                id \notin TrackedIds(strategy')
         /\ TrackedIds(strategy')
              \subseteq iteration'.response[1] \cup iteration'.placed]_vars

C15_Witness ==
    iteration.n > 0 /\ iteration.closed /\ iteration.placed # {}

\* C17: trading_enabled_ goes from true to false exactly in an iteration whose
\* NAV lies more than max_drawdown_usd, or more than max_drawdown_pct of the
\* peak, below the peak, and that iteration issues cancel_open_orders and
\* stamps risk_disabled_since_; it goes from false to true only in an
\* iteration where risk_cooldown_ms has passed since risk_disabled_since_ and
\* NAV >= peak * (1 - 0.5 * max_drawdown_pct).
C17_DrawdownMachine ==
    [][LET nav == iteration'.nav[1]
           peak == strategy'.session_peak_nav_[1]
           checked == iteration'.nav # None
           breach ==
               \/ config_.max_drawdown_usd > 0 /\ peak - nav > config_.max_drawdown_usd
               \/ config_.max_drawdown_pct > 0
                    /\ (peak - nav) * 100 > config_.max_drawdown_pct * peak
       IN  /\ (strategy.trading_enabled_ /\ ~strategy'.trading_enabled_) =>
                /\ checked /\ breach
                /\ iteration'.cancel_issued
                /\ strategy'.risk_disabled_since_ = iteration'.risk_time
           /\ (strategy.trading_enabled_ /\ checked /\ breach) =>
                ~strategy'.trading_enabled_
           /\ (~strategy.trading_enabled_ /\ strategy'.trading_enabled_) =>
                /\ checked
                /\ iteration'.risk_time - strategy.risk_disabled_since_
                     >= config_.risk_cooldown_ms
                /\ nav * 200 >= peak * (200 - config_.max_drawdown_pct)]_vars

C17_Witness ==
    iteration.n > 0 /\ ~iteration.was_enabled /\ strategy.trading_enabled_

-----------------------------------------------------------------------------
(* Properties of OrderBook::apply_update                                    *)

\* What an update lists last for price p: nothing, or a quantity.
LastListed(updates, p) ==
    LET listed == {i \in 1..Len(updates) : updates[i].price = p}
    IN  IF listed = {} THEN None ELSE Some(updates[SetMax(listed)].quantity)

\* One side after an update: a price listed with a positive quantity holds
\* that quantity, a price listed with quantity zero holds no level, and every
\* other level is as it was.
SideUpdated(old, new, updates) ==
    /\ DOMAIN new \subseteq Prices
    /\ \A p \in Prices :
          LET listed == LastListed(updates, p)
          IN  IF listed = None
              THEN /\ p \in DOMAIN new <=> p \in DOMAIN old
                   /\ p \in DOMAIN old => new[p] = old[p]
              ELSE IF listed[1] > 0
                   THEN p \in DOMAIN new /\ new[p] = listed[1]
                   ELSE p \notin DOMAIN new

-----------------------------------------------------------------------------
(* Properties of the depth feed's incremental updates                       *)

\* No level of the map is at a price the raw levels list with quantity zero.
ZeroLevelsGone(raw_levels, m) ==
    \A i \in 1..Len(raw_levels) :
        raw_levels[i].quantity = 0 => raw_levels[i].price \notin DOMAIN m

\* C20: when handle_depth_message accepts an incremental message (returns
\* true, not a snapshot) that lists a level with quantity zero on a side, the
\* book afterwards holds no level at that price on that side.
C20_ZeroQuantityRemoves ==
    [][\A env \in Envelopes, raw_bids \in RawBids, raw_asks \in RawAsks,
         ver \in VersionFields :
         (/\ lastOp' = "handle_depth_message"
          /\ ret'
          /\ ~is_snapshot(env, raw_bids, raw_asks)
          /\ handle_depth_message(env, raw_bids, raw_asks, ver)) =>
            /\ ZeroLevelsGone(raw_bids, bids_')
            /\ ZeroLevelsGone(raw_asks, asks_')]_vars

-----------------------------------------------------------------------------
(* Properties of the depth feed's version continuity check                  *)

\* gap = from_version - expected, expected = last_to_version + 1.
SubsequentGap(ver) == ver.from[1] - (last_to_version_[1] + 1)

\* C21, as stated: for every depth message after the first accepted one (a
\* message that has levels, so that it is not dropped as empty), with
\* gap = from_version - (last_to_version + 1): the message is dropped if
\* gap < -100 and accepted in every other case (for gap > 100 after
\* last_to_version was reset to from_version - 1); after an accepted message
\* last_to_version equals the message's to_version.
C21_Original ==
    [][(/\ lastOp' = "handle_depth_message"
        /\ last_to_version_ # <<>>
        /\ message'.from # <<>> /\ message'.to # <<>>) =>
         \A env \in VersionedEnvelopes, raw_bids \in RawBids, raw_asks \in RawAsks :
           (/\ parse_depth_levels(raw_bids, 1) \o parse_depth_levels(raw_asks, 1) # <<>>
            /\ handle_depth_message(env, raw_bids, raw_asks, message')) =>
              /\ ret' = ~(SubsequentGap(message') < -100)
              /\ ret' => last_to_version_' = message'.to]_vars

\* C21, amended: for every depth message that carries from_version and
\* to_version, has at least one level with positive price and quantity, and
\* arrives when last_to_version is set: if gap < -100 the message is dropped
\* and nothing changes; otherwise it passes the check, last_to_version being
\* first reset to from_version - 1 if gap > 100.  A message that passes is
\* accepted, and last_to_version then equals its to_version, unless it is an
\* incremental message with one side only that meets a book that is not
\* valid: that one is dropped, and what the check wrote stays.
C21_Amended ==
    [][(/\ lastOp' = "handle_depth_message"
        /\ last_to_version_ # <<>>
        /\ message'.from # <<>> /\ message'.to # <<>>) =>
         \A env \in VersionedEnvelopes, raw_bids \in RawBids, raw_asks \in RawAsks :
           LET bids == parse_depth_levels(raw_bids, 1)
               asks == parse_depth_levels(raw_asks, 1)
               gap == SubsequentGap(message')
           IN  (/\ bids \o asks # <<>>
                /\ handle_depth_message(env, raw_bids, raw_asks, message')) =>
                  IF gap < -100
                  THEN ~ret' /\ UNCHANGED <<bookVars, last_to_version_, snapshot_version_>>
                  ELSE IF \/ is_snapshot(env, raw_bids, raw_asks)
                          \/ is_valid
                          \/ (bids # <<>> /\ asks # <<>>)
                  THEN ret' /\ last_to_version_' = message'.to
                  ELSE /\ ~ret'
                       /\ last_to_version_' = IF gap > 100 THEN <<message'.from[1] - 1>>
                                                          ELSE last_to_version_
                       /\ UNCHANGED <<bookVars, snapshot_version_>>]_vars

\* A message from 5105 to 5105 was accepted on a feed whose REST snapshot was
\* at 103: as a first message it would have been 5001 ahead and dropped, so
\* some message before it, or itself, was accepted with a gap above 100.
C21_Witness ==
    /\ lastOp = "handle_depth_message"
    /\ ret
    /\ message.from = <<5105>> /\ message.to = <<5105>>
    /\ snapshot_version_ = 103
    /\ last_to_version_ = <<5105>>

\* The book holds the REST snapshot subscribe loaded and no depth message has
\* been accepted since: last_to_version is unset and snapshot_version is the
\* snapshot's lastUpdateId.
AfterRestSnapshot ==
    /\ last_to_version_ = <<>>
    /\ snapshot_version_ > 0
    /\ last_update_id_ = snapshot_version_

-----------------------------------------------------------------------------
(* Properties of the escape path                                            *)

\* The iteration just run escaped on the sell side only (line 671 stamps the
\* escape with the clock reading of line 635), and the wait for the order to
\* close ran to its deadline.
SellEscapeTimedOut ==
    /\ lastOp' = "run"
    /\ strategy'.last_sell_escape_event_ = iteration'.loop_start
    /\ strategy'.last_buy_escape_event_ # iteration'.loop_start
    /\ now' - iteration'.loop_start >= config_.order_status_timeout_ms

\* C23: on the escape path the WorkingOrder is forgotten only after the status
\* poll has confirmed a terminal status; when wait_for_order_close times out,
\* the order the escape was for stays tracked: after an iteration whose sell
\* escape timed out, sell_order_ still holds an order of that iteration's
\* open-orders response.
C23_TrackedUntilClosed ==
    [][SellEscapeTimedOut =>
         /\ strategy'.sell_order_ # None
         /\ strategy'.sell_order_[1].client_id \in iteration'.response[1]]_vars

-----------------------------------------------------------------------------
(* Properties of the rate-limit governor inside the loop                    *)

\* C24: while now < rate_limited_until the strategy issues no exchange call:
\* no iteration sends a request (account, open orders, depth, trades, cancel,
\* status query, order placement) at a time when rate_limited_until_ is set
\* and lies ahead.
C24_NoCallWhileLimited ==
    iteration.n > 0 => iteration.limited = {}

-----------------------------------------------------------------------------
(* Properties of the fill poll                                              *)

\* The step is a poll that reached the exchange (it was not skipped by the
\* poll interval).
Polled == lastOp' = "pull_recent_trades" /\ iteration'.n # iteration.n

\* C25: in every fill poll the strategy hands to the ledger's append only
\* trades whose id is strictly greater than
\* cursor = max(strategy last_trade_id, ledger last_trade_id), in ascending
\* id order; afterwards the cursor equals the greatest id whose append
\* returned (it stays when none did); across any sequence of polls the
\* cursor never decreases.
C25_Cursor ==
    [][Polled =>
         LET poll == iteration'
             after == Max(strategy'.last_trade_id_, state_'.last_trade_id)
         IN  /\ poll.cursor = trade_cursor
             /\ \A i \in 1..Len(poll.appended) : poll.appended[i].id > poll.cursor
             /\ \A i, j \in 1..Len(poll.appended) :
                   i < j => poll.appended[i].id <= poll.appended[j].id
             /\ after = IF poll.returned = 0 THEN poll.cursor
                        ELSE poll.appended[poll.returned].id
             /\ after >= trade_cursor
             /\ Len(entries_') = Len(entries_) + Len(poll.appended)]_vars

\* A poll with the cursor at 2 was answered with two trades, one of them at
\* or below the cursor, and appended trade 3 alone.
C25_Witness ==
    /\ lastOp = "pull_recent_trades"
    /\ iteration.n = 2
    /\ iteration.cursor = 2
    /\ iteration.offered = 2
    /\ Len(iteration.appended) = 1 /\ iteration.returned = 1
    /\ strategy.last_trade_id_ = 3
    /\ Len(file) = 2 /\ file[1].id = 2 /\ file[2].id = 3

\* C26: when the storage fails on the ledger file while a poll appends its
\* fills, that call of append throws, so that it is the last one of the
\* poll: no later fill is appended, and the file has gained the lines of the
\* fills before it and no other.
C26_WriteFailureSurfaced ==
    [][Polled =>
         LET poll == iteration'
         IN  \A i \in 1..Len(poll.disk) :
               poll.disk[i] # "written" =>
                 /\ threw'
                 /\ Len(poll.appended) = i
                 /\ poll.returned = i - 1
                 /\ Len(file') = Len(file) + poll.returned]_vars

-----------------------------------------------------------------------------
(* Properties of the ledger's overflow guard                                *)

InInt64(x) == INT64_MIN <= x /\ x <= INT64_MAX

\* The accounting of one fill on the state s, in unbounded integers, leaves
\* the int64_t range in position_base, position_cost or realized_pnl.
LeavesInt64(s, fill) ==
    IF fill.side = Buy
    THEN \/ ~InInt64(s.position_base + fill.base_qty)
         \/ ~InInt64(s.position_cost + fill.quote_qty)
    ELSE /\ fill.base_qty > 0 /\ s.position_base > 0
         /\ LET matched == Min(s.position_base, fill.base_qty)
                cost_reduction == llround(s.position_cost * matched, Max(s.position_base, 1))
                proceeds == llround(fill.quote_qty * matched, fill.base_qty)
            IN  \/ ~InInt64(s.position_base - matched)
                \/ ~InInt64(s.position_cost - cost_reduction)
                \/ ~InInt64(s.realized_pnl + (proceeds - cost_reduction))

\* C27: an append whose accounting would leave the signed 64-bit range
\* (position_base, position_cost or realized_pnl, on the buy path and on the
\* sell path) fails with the overflow error: the call throws, and the ledger
\* holds no wrapped or out-of-range value.
C27_OverflowFails ==
    [][Len(file') = Len(file) + 1 =>
         LET fill == parse_line(file'[Len(file')]).fill
         IN  LeavesInt64(state_, fill) => (lastOp' = "append" /\ threw')]_vars

-----------------------------------------------------------------------------
(* Properties of the commission folded into a fill                          *)

\* C28: when a trade is folded into a fill, a commission in the base asset
\* is subtracted from base_qty, one in USDT from quote_qty, and one in any
\* other asset reduces neither quantity and is recorded in the fill's
\* fee_qty.  The quantities of the fill are those the ledger file receives.
C28_CommissionFolded ==
    [][(Polled /\ iteration'.returned = 1) =>
         LET trade == iteration'.appended[1]
             fill == fold_trade(trade)
             line == file'[Len(file')]
             net(x) == llround(Max(0, x - trade.commission), HalfUnits)
             gross(x) == llround(x, HalfUnits)
         IN  /\ line.base = fill.base_qty /\ line.quote = fill.quote_qty
             /\ trade.commissionAsset = BaseAsset =>
                  (fill.base_qty = net(trade.qty) /\ fill.quote_qty = gross(trade.quoteQty))
             /\ trade.commissionAsset = "USDT" =>
                  (fill.base_qty = gross(trade.qty) /\ fill.quote_qty = net(trade.quoteQty))
             /\ trade.commissionAsset \notin {"", BaseAsset, "USDT"} =>
                  /\ fill.base_qty = gross(trade.qty)
                  /\ fill.quote_qty = gross(trade.quoteQty)
                  /\ fill.fee_qty = llround(trade.commission, HalfUnits)
                  /\ fill.fee_asset = trade.commissionAsset]_vars

-----------------------------------------------------------------------------
(* Properties of order placement                                            *)

\* C29: the strategy sends a limit order on a side only when no WorkingOrder
\* is tracked for that side, in quote maintenance and in the
\* startup-inventory bootstrap alike: no SELL (BUY) limit order is sent
\* while sell_order_ (buy_order_) is set.
C29_OnePerSide ==
    iteration.n > 0 =>
        \A o \in iteration.sent : o.type = "LIMIT" => ~o.tracked

\* The limit orders of a side the iteration has sent.
LimitOrdersSent(side) ==
    {o \in iteration.sent : o.type = "LIMIT" /\ o.side = side}

\* C30: a WorkingOrder is recorded for a side only when new_order answered
\* with status NEW or PARTIALLY_FILLED; after any other response (another
\* status, no status, an HTTP or parse error) the order is not recorded and
\* the strategy sends no other limit order on that side in the same
\* iteration.
C30_RejectedNotTracked ==
    iteration.n > 0 =>
        \A side \in {"SELL", "BUY"} :
            /\ make_order_id(iteration.n - 1, side) \in iteration.placed
                 => \E o \in LimitOrdersSent(side) : o.answer = "placed"
            /\ (\E o \in LimitOrdersSent(side) : o.answer # "placed")
                 => Cardinality(LimitOrdersSent(side)) = 1

-----------------------------------------------------------------------------
(* Properties of the checks of place_limit_order                            *)

\* The request r meets the filters f: price >= min_price and on the tick
\* grid, quantity >= min_qty and on the step grid, notional >= min_notional.
MeetsFilters(r, f) ==
    /\ r.price >= f.min_price
    /\ f.tick_size > 0 => r.price % f.tick_size = 0
    /\ r.quantity >= f.min_qty
    /\ f.step_size > 0 => r.quantity % f.step_size = 0
    /\ r.quantity * r.price >= f.min_notional

\* C31: every LIMIT order the strategy sends satisfies
\* quantity >= min_base_quantity, quantity * price >= min_quote_order and all
\* loaded exchange filters; an order failing any of these is never sent.
C31_SentOrdersValid ==
    (lastOp = "place_limit_order" /\ iteration.request # None) =>
        LET r == iteration.request[1]
        IN  /\ r.quantity >= config_.min_base_quantity
            /\ r.quantity * r.price >= config_.min_quote_order
            /\ strategy.symbol_filters_ # None =>
                 MeetsFilters(r, strategy.symbol_filters_[1])

-----------------------------------------------------------------------------
(* Properties of the client's request timings                              *)

\* The timings are those of one single request (or of no request yet).
OneRequest(t) == \E n \in 0..MaxRequests : t = request_timings(n)

\* C32, as stated: a call of last_request_timings() never overlaps the write
\* of last_timings_ by a request, and what it returns are the complete
\* timings of one single request.
C32_TimingsUnderLock ==
    /\ ~client.observer.raced
    /\ client.observer.pc = "done" => OneRequest(client.observer.result)

-----------------------------------------------------------------------------
(* Properties of append as one step                                        *)

\* C33, as stated: a call of append that raises leaves the file and the
\* LedgerState as they were; a call that returns has added exactly one
\* record, that of the fill, and the LedgerState is the one before the call
\* with that fill accounted for.
C33_AppendAllOrNothing ==
    [][lastOp' = "append" =>
         IF threw'
         THEN file' = file /\ state_' = state_
         ELSE /\ Len(file') = Len(file) + 1
              /\ SubSeq(file', 1, Len(file)) = file
              /\ LET record == parse_line(file'[Len(file')])
                 IN  /\ ~record.skip
                     /\ state_' = append_account(state_, record.fill).state]_vars

\* C34, as stated: however the polls went (an append that failed part-way, a
\* response that repeats trades), no trade id stands in two records of the
\* ledger file.
C34_TradeIdWrittenOnce ==
    \A i, j \in 1..Len(file) : file[i].id = file[j].id => i = j

-----------------------------------------------------------------------------
(* Properties of the taker escape                                          *)

\* C35, as stated: a MARKET escape order is sent only after
\* wait_for_order_close has confirmed the resting order closed; an iteration
\* whose sell escape waited to the deadline without that confirmation sends
\* no MARKET SELL order.
C35_EscapeAfterConfirmedClose ==
    [][SellEscapeTimedOut =>
         \A order \in iteration'.sent :
            ~(order.type = "MARKET" /\ order.side = "SELL")]_vars

-----------------------------------------------------------------------------
(* Properties of the depth stream                                          *)

\* The message handled last was taken and applied to the book.
Accepted == lastOp = "handle_depth_message" /\ ret

\* C36, as stated: whatever the stream of two-sided messages with increasing
\* versions is, and however far its first message lies from the snapshot,
\* some message is eventually accepted.
C36_Original == <>Accepted

\* The first message is awaited and the one arriving (handled in the step)
\* lies within the gate's window around the snapshot: at most kMaxFirstGap
\* ahead of snapshot_version_ + 1 and at most kMaxBackGap behind it.
InFirstWindow ==
    LET gap == message'.from[1] - (snapshot_version_ + 1)
    IN  snapshot_version_ = 0 \/ (gap <= kMaxFirstGap /\ gap >= -kMaxBackGap)

\* C36, amended: in a stream of two-sided messages with increasing versions,
\* a message that arrives before any was accepted is accepted exactly when it
\* lies within the window around the snapshot, and every message that
\* arrives after an accepted one is accepted.
C36_Amended ==
    [][lastOp' = "handle_depth_message" =>
         (ret' <=> (last_to_version_ # <<>> \/ InFirstWindow))]_vars

\* A first message kMaxFirstGap ahead of the snapshot was accepted, the anchor
\* moved to it.
C36_Witness ==
    /\ Accepted
    /\ message.from = <<5104>>
    /\ snapshot_version_ = 5103
    /\ last_to_version_ = message.to

\* C37, as stated: a message that handle_depth_message rejects (it returns
\* false) leaves the order book, snapshot_version_ and last_to_version_ as
\* they were.
C37_RejectedLeavesState ==
    [][(lastOp' = "handle_depth_message" /\ ~ret') =>
          UNCHANGED <<bids_, asks_, last_update_id_, snapshot_version_, last_to_version_>>]_vars

-----------------------------------------------------------------------------
(* Properties of the update callback                                       *)

\* C38, as stated: once set_update_callback has returned, the callback
\* registered before is never invoked again.
C38_Original ==
    \A c \in Callbacks : notify.late[c] = 0

\* C38, amended: once set_update_callback has returned, no handler copies the
\* callback registered before, and that callback is invoked at most once
\* more, by the handler that had copied it before the call returned.
C38_Amended ==
    /\ ~notify.stale
    /\ \A c \in Callbacks : notify.late[c] <= 1

\* set_update_callback(nullptr) has returned and the callback it took out was
\* invoked afterwards by the message in flight; later messages found none.
C38_Witness ==
    /\ notify.update_callback_ = NoCallback
    /\ notify.late[1] = 1
    /\ notify.messages = MaxMessages
    /\ notify.feed.pc = "idle"

-----------------------------------------------------------------------------
(* Properties of the drawdown breaker and the quotes                       *)

\* C39, as stated: in every iteration in which ensure_starting_inventory or
\* maintain_quotes places a limit order, the drawdown that iteration's risk
\* check measured (the session peak less the NAV) exceeds neither
\* max_drawdown_usd nor max_drawdown_pct.
C39_QuotesWithinDrawdown ==
    (iteration.n > 0 /\ iteration.placed # {}) =>
        /\ iteration.nav # None
        /\ ~drawdown_breached(strategy.session_peak_nav_[1], iteration.nav[1])

-----------------------------------------------------------------------------
(* Properties of the fills the strategy builds                             *)

\* C40, as stated: the is_maker flag of every TradeFill the strategy hands to
\* append is the isMaker flag the exchange reported for that trade.
C40_MakerFlagKept ==
    iteration.n > 0 =>
        \A i \in 1..Len(iteration.appended) :
            iteration.fills[i].is_maker = iteration.appended[i].isMaker

====
